---- MODULE Spec2Model ----
(***************************************************************************)
(* A model of the Telegram MCP server: the tool dispatcher with its lazy   *)
(* connection and its shutdown (src/src/index.ts), the error classifier    *)
(* (src/src/utils/ErrorHandler.ts), the input schemas                      *)
(* (src/src/schemas/index.ts), the handlers (src/src/handlers) and the     *)
(* client operations that carry an algorithm of their own                  *)
(* (src/src/telegram/client.ts: getChats, searchMessages,                  *)
(* getMessageContext, buildReplyChain).                                    *)
(*                                                                         *)
(* The specifications share the variables:                                 *)
(*   Spec        the dispatcher process: concurrent tool invocations,      *)
(*               the lazy login, the termination signals;                  *)
(*   CtxSpec     one getMessageContext call over a reply-pointer graph,    *)
(*               and CtxFairSpec, the same with every request answered;    *)
(*   ChatsSpec   one listChats or searchChats call down to the remote;     *)
(*   SearchSpec  one searchMessages call, scoped or unscoped;              *)
(*   ToolSpec    one handler call against a mocked client;                 *)
(*   MediaSpec   one getMediaInfo or getFileInfo call down to the remote;  *)
(*   ClassifySpec  one failure value given to the error classifier;        *)
(*   ChatInfoSpec  two getChatInfo calls for one chat;                     *)
(*   ConnSpec    connect() and disconnect() called one after the other;    *)
(*   OpsSpec     client operations running at once, with disconnect();     *)
(*   FormatSpec  one raw message given to formatMessageInfo.               *)
(* A specification leaves the variables of the others at their initial     *)
(* values.                                                                 *)
(***************************************************************************)
EXTENDS Integers, Sequences, FiniteSets, TLC

VARIABLES
    \* ---- the dispatcher process (Spec) ----
    telegramClient,   \* index.ts:20  "null" or "client"
    handlers,         \* index.ts:21-23  TRUE once the three handlers are set
    isConnected,      \* client.ts:14
    loginCalls,       \* number of client.login calls issued so far
    closeCalls,       \* number of client.close calls issued so far
    req,              \* the tool invocations in flight, one record per slot
    sig,              \* the signal handlers in flight, one record per slot
    exited,           \* process.exit has been called
    exitStatus,       \* the status given to process.exit, -1 before
    cleanupErrors,    \* number of 'Error during cleanup' log lines
    \* ---- one getMessageContext call (CtxSpec) ----
    ctx,
    \* ---- one listChats or searchChats call (ChatsSpec) ----
    lst,
    \* ---- one searchMessages call (SearchSpec) ----
    srch,
    \* ---- one handler call against a mocked client (ToolSpec) ----
    call,
    \* ---- one getMediaInfo or getFileInfo call (MediaSpec) ----
    med,
    \* ---- one failure given to the classifier (ClassifySpec) ----
    cls,
    \* ---- two getChatInfo calls for one chat (ChatInfoSpec) ----
    chat,
    \* ---- one TelegramClient object and its callers (ConnSpec, OpsSpec) ----
    tg,
    \* ---- one raw message given to formatMessageInfo (FormatSpec) ----
    fmt

dvars == <<telegramClient, handlers, isConnected, loginCalls, closeCalls,
           req, sig, exited, exitStatus, cleanupErrors>>
vars == <<telegramClient, handlers, isConnected, loginCalls, closeCalls,
          req, sig, exited, exitStatus, cleanupErrors, ctx, lst, srch, call, med, cls, chat, tg, fmt>>

(***************************************************************************)
(* Bounds of the model.                                                    *)
(***************************************************************************)
MaxReq == 2       \* tool invocations that can be in flight together
MaxSig == 2       \* termination signals that can be delivered
CountCap == 3     \* the call counters saturate here

Bump(n) == IF n < CountCap THEN n + 1 ELSE n

(***************************************************************************)
(* The error taxonomy and the classifier.                                  *)
(***************************************************************************)
ErrorCodes == {"InvalidParams", "InvalidRequest", "InternalError", "MethodNotFound"}

\* The failure values a handler can see: an McpError, a ZodError with its
\* issues, an Error with its message, and a thrown value that is no Error
\* (msg: the message field of the value, "none" when it has none).
ErrorMessages == {"PHONE_NUMBER_INVALID", "CHAT_ID_INVALID", "USER_ID_INVALID",
                  "CONNECTION_NOT_INITED", "other",
                  "", "Error 400: CHAT_ID_INVALID", "chat_id_invalid",
                  "USER_ID_INVALID after CONNECTION_NOT_INITED",
                  "CONNECTION_NOT_INITED, PHONE_NUMBER_INVALID"}
McpMessages == {"mcp", "CHAT_ID_INVALID"}
ValueMessages == {"none", "USER_ID_INVALID"}

\* The issues of a ZodError: path and message.
ZodIssues == {[path |-> <<"chatId">>, message |-> "Required"],
              [path |-> <<"messageIds", "0">>, message |-> "Expected number"],
              [path |-> <<>>, message |-> "Expected object"]}
MaxIssues == 3    \* issues of one ZodError
ZodIssueLists == UNION {[1..n -> ZodIssues] : n \in 1..MaxIssues}
ZodErrors == [type : {"ZodError"}, code : {"none"}, msg : {"zod"}, errors : ZodIssueLists]

\* The ZodError of a parse that failed on one field.
ParseFailure == [type |-> "ZodError", code |-> "none", msg |-> "zod",
                 errors |-> <<[path |-> <<"chatId">>, message |-> "Required"]>>]

Failures ==
    [type : {"McpError"}, code : ErrorCodes, msg : McpMessages]
    \cup ZodErrors
    \cup [type : {"Error"}, code : {"none"}, msg : ErrorMessages]
    \cup [type : {"value"}, code : {"none"}, msg : ValueMessages]

\* What a remote call (client.invoke) can reject with.
RemoteFailures == {f \in Failures : f.type \in {"Error", "value"}}

\* new McpError(code, message)
McpError(code, message) == [type |-> "McpError", code |-> code, msg |-> message]

\* String.prototype.includes
includes(s, q) == \E off \in 0..(Len(s) - Len(q)) : SubSeq(s, off + 1, off + Len(q)) = q

\* Array.prototype.join
RECURSIVE join(_, _)
join(strs, sep) ==
    IF strs = <<>> THEN ""
    ELSE IF Len(strs) = 1 THEN strs[1]
    ELSE strs[1] \o sep \o join(Tail(strs), sep)

\* error.errors.map(err => `${err.path.join('.')}: ${err.message}`).join(', ')
ZodMessage_FirstOnly(errors) ==
    join(errors[1].path, ".") \o ": " \o errors[1].message
ZodMessage(errors) ==
    join([i \in 1..Len(errors) |->
              join(errors[i].path, ".") \o ": " \o errors[i].message], ", ")

\* The classifier's test for an error that is classified already.
IsMcpError_Never(e) == FALSE
IsMcpError(e) == e.type = "McpError"

\* The classifier's answer to an Error whose message holds none of the
\* known codes.
OperationFailed_Bare(message) == McpError("InternalError", message)
OperationFailed(message) == McpError("InternalError", "Operation failed: " \o message)

handleError(e) ==
    IF IsMcpError(e) THEN e
    ELSE IF e.type = "ZodError"
    THEN McpError("InvalidParams", "Validation error: " \o ZodMessage(e.errors))
    ELSE IF e.type \in {"Error", "McpError"}
    THEN IF includes(e.msg, "PHONE_NUMBER_INVALID")
         THEN McpError("InvalidRequest", "Invalid phone number format")
         ELSE IF includes(e.msg, "CHAT_ID_INVALID")
         THEN McpError("InvalidRequest", "Invalid chat ID")
         ELSE IF includes(e.msg, "USER_ID_INVALID")
         THEN McpError("InvalidRequest", "Invalid user ID")
         ELSE IF includes(e.msg, "CONNECTION_NOT_INITED")
         THEN McpError("InternalError", "Telegram connection not initialized")
         ELSE OperationFailed(e.msg)
    ELSE McpError("InternalError", "Unknown error occurred")

\* withErrorHandling rethrows the classified error: what a handler that
\* failed with e rejects with.
withErrorHandling(e) == handleError(e)

(***************************************************************************)
(* The tool names and the dispatcher's switch.                             *)
(***************************************************************************)
ChatTools == {"list_chats", "get_chat_info", "search_chats"}
UserTools == {"get_user_info"}
MessageTools == {"get_messages", "send_message", "search_messages", "mark_as_read",
                 "get_media_content", "send_media", "get_media_info", "edit_message",
                 "delete_message", "forward_message", "get_message_context",
                 "send_document", "download_file", "get_file_info"}
ToolNames == ChatTools \cup UserTools \cup MessageTools
UnknownNames == {"no_such_tool", ""}
AllNames == ToolNames \cup UnknownNames

\* The handler object the switch of the CallTool handler reaches for a name,
\* "none" for the default branch.
Route(name) ==
    CASE name \in ChatTools -> "chat"
      [] name \in MessageTools -> "message"
      [] name \in UserTools -> "user"
      [] OTHER -> "none"

(***************************************************************************)
(* The dispatcher process.                                                 *)
(*                                                                         *)
(* A tool invocation is a record                                           *)
(*   pc       "idle", "connecting" (awaiting client.login), "invoking"     *)
(*            (awaiting a client.invoke of its handler) or "done"          *)
(*   stage    who awaits the login: "dispatcher" (getTelegramClient) or    *)
(*            "handler" (ensureConnected in a client operation)            *)
(*   route    Route(name) of its tool name                                 *)
(*   outcome  "none", "ok", one of ErrorCodes, or "raw": a failure that    *)
(*            is no McpError                                               *)
(*   connect  it has called client.connect                                 *)
(*   op       it has called a client operation of a handler                *)
(***************************************************************************)
IdleReq == [pc |-> "idle", stage |-> "none", route |-> "none", outcome |-> "none",
            connect |-> FALSE, op |-> FALSE]

IdleSig == [pc |-> "idle"]

DispatcherInit ==
    /\ telegramClient = "null"
    /\ handlers = FALSE
    /\ isConnected = FALSE
    /\ loginCalls = 0
    /\ closeCalls = 0
    /\ req = [r \in 1..MaxReq |-> IdleReq]
    /\ sig = [s \in 1..MaxSig |-> IdleSig]
    /\ exited = FALSE
    /\ exitStatus = -1
    /\ cleanupErrors = 0

CtxIdle == [pc |-> "off"]
ListIdle == [pc |-> "off"]
SearchIdle == [pc |-> "off"]
CallIdle == [pc |-> "off"]
MediaIdle == [pc |-> "off"]
ClassifyIdle == [pc |-> "off"]
ChatInfoIdle == [pc |-> "off"]
ClientIdle == [pc |-> "off"]
FormatIdle == [pc |-> "off"]
OthersIdle ==
    /\ chat = ChatInfoIdle
    /\ tg = ClientIdle
    /\ fmt = FormatIdle

Init ==
    /\ DispatcherInit
    /\ ctx = CtxIdle
    /\ lst = ListIdle
    /\ srch = SearchIdle
    /\ call = CallIdle
    /\ med = MediaIdle
    /\ cls = ClassifyIdle
    /\ OthersIdle

\* getTelegramClient's test: the client is constructed and connected only
\* when the field is still null.
NeedsInit_HandlersUnset == ~handlers
NeedsInit == telegramClient = "null"

\* The request after a client operation of its handler has been entered,
\* with isConnected as it is then (connected): ensureConnected issues no
\* login when it is set, then the operation awaits its client.invoke.
EnterClientOp(q, connected) ==
    IF connected
    THEN [q EXCEPT !.pc = "invoking", !.op = TRUE]
    ELSE [q EXCEPT !.pc = "connecting", !.stage = "handler", !.op = TRUE]

\* The switch and the handler up to its first await, for a request q whose
\* route is known, with the handlers as they are when the switch runs.
\* valid: the arguments pass the handler's schema.
Dispatch(q, haveHandlers, connected, valid) ==
    IF q.route = "none"
    THEN [q EXCEPT !.pc = "done", !.outcome = "MethodNotFound"]
    ELSE IF ~haveHandlers
    THEN [q EXCEPT !.pc = "done", !.outcome = "raw"]
    ELSE IF ~valid
    THEN [q EXCEPT !.pc = "done",
                   !.outcome = withErrorHandling(ParseFailure).code]
    ELSE EnterClientOp(q, connected)

\* A CallTool request arrives: getTelegramClient, then the switch.
CallTool(r) ==
    /\ ~exited
    /\ req[r].pc = "idle"
    /\ \E name \in AllNames, valid \in BOOLEAN :
        LET q == [IdleReq EXCEPT !.route = Route(name)] IN
        IF NeedsInit
        THEN /\ telegramClient' = "client"
             /\ loginCalls' = Bump(loginCalls)
             /\ req' = [req EXCEPT ![r] = [q EXCEPT !.pc = "connecting",
                                                    !.stage = "dispatcher",
                                                    !.connect = TRUE]]
             /\ UNCHANGED <<handlers, isConnected>>
        ELSE /\ LET d == Dispatch(q, handlers, isConnected, valid) IN
                /\ req' = [req EXCEPT ![r] = d]
                /\ loginCalls' = IF d.pc = "connecting" THEN Bump(loginCalls) ELSE loginCalls
             /\ UNCHANGED <<telegramClient, handlers, isConnected>>
    /\ UNCHANGED <<closeCalls, sig, exited, exitStatus, cleanupErrors, ctx, lst, srch, call, med, cls, chat, tg, fmt>>

\* client.login resolves: connect sets isConnected; getTelegramClient then
\* sets the handlers and the switch runs; a client operation goes on to its
\* client.invoke.
LoginResolve(r) ==
    /\ ~exited
    /\ req[r].pc = "connecting"
    /\ isConnected' = TRUE
    /\ IF req[r].stage = "dispatcher"
       THEN /\ handlers' = TRUE
            /\ \E valid \in BOOLEAN :
                 req' = [req EXCEPT ![r] = Dispatch(req[r], TRUE, TRUE, valid)]
       ELSE /\ handlers' = handlers
            /\ req' = [req EXCEPT ![r].pc = "invoking"]
    /\ UNCHANGED <<telegramClient, loginCalls, closeCalls, sig, exited, exitStatus,
                   cleanupErrors, ctx, lst, srch, call, med, cls, chat, tg, fmt>>

\* client.login rejects: connect throws Error('Telegram connection failed').
\* Out of getTelegramClient the Error leaves the CallTool handler as it is;
\* inside a handler withErrorHandling classifies it.
LoginReject(r) ==
    /\ ~exited
    /\ req[r].pc = "connecting"
    /\ req' = [req EXCEPT ![r].pc = "done",
                          ![r].outcome =
                              IF req[r].stage = "dispatcher"
                              THEN "raw"
                              ELSE withErrorHandling([type |-> "Error", code |-> "none",
                                                      msg |-> "other"]).code]
    /\ UNCHANGED <<telegramClient, handlers, isConnected, loginCalls, closeCalls, sig,
                   exited, exitStatus, cleanupErrors, ctx, lst, srch, call, med, cls, chat, tg, fmt>>

\* A client.invoke of the handler resolves: the handler returns its text,
\* or (MessageHandler.getMessages with "me") enters a second client
\* operation.
RemoteResolve(r) ==
    /\ ~exited
    /\ req[r].pc = "invoking"
    /\ \E last \in BOOLEAN :
        /\ (~last) => req[r].route = "message"
        /\ LET d == IF last
                    THEN [req[r] EXCEPT !.pc = "done", !.outcome = "ok"]
                    ELSE EnterClientOp(req[r], isConnected) IN
           /\ req' = [req EXCEPT ![r] = d]
           /\ loginCalls' = IF d.pc = "connecting" THEN Bump(loginCalls) ELSE loginCalls
    /\ UNCHANGED <<telegramClient, handlers, isConnected, closeCalls, sig, exited,
                   exitStatus, cleanupErrors, ctx, lst, srch, call, med, cls, chat, tg, fmt>>

\* A client.invoke of the handler rejects with e: the client operation
\* rethrows and withErrorHandling classifies.
RemoteReject(r) ==
    /\ ~exited
    /\ req[r].pc = "invoking"
    /\ \E e \in RemoteFailures :
        req' = [req EXCEPT ![r].pc = "done", ![r].outcome = withErrorHandling(e).code]
    /\ UNCHANGED <<telegramClient, handlers, isConnected, loginCalls, closeCalls, sig,
                   exited, exitStatus, cleanupErrors, ctx, lst, srch, call, med, cls, chat, tg, fmt>>

\* The caller has its answer; the slot takes the next invocation.
Return(r) ==
    /\ ~exited
    /\ req[r].pc = "done"
    /\ req' = [req EXCEPT ![r] = IdleReq]
    /\ UNCHANGED <<telegramClient, handlers, isConnected, loginCalls, closeCalls, sig,
                   exited, exitStatus, cleanupErrors, ctx, lst, srch, call, med, cls, chat, tg, fmt>>

\* disconnect's test: client.close is called only when isConnected.
DisconnectCloses == isConnected

\* cleanup up to its first await, then (when nothing is awaited)
\* process.exit(0).
cleanup(s) ==
    /\ ~exited
    /\ sig[s].pc = "idle"
    /\ IF telegramClient # "null" /\ DisconnectCloses
       THEN /\ closeCalls' = Bump(closeCalls)
            /\ sig' = [sig EXCEPT ![s].pc = "closing"]
            /\ UNCHANGED <<exited, exitStatus>>
       ELSE /\ sig' = [sig EXCEPT ![s].pc = "done"]
            /\ exited' = TRUE
            /\ exitStatus' = 0
            /\ UNCHANGED closeCalls
    /\ UNCHANGED <<telegramClient, handlers, isConnected, loginCalls, req,
                   cleanupErrors, ctx, lst, srch, call, med, cls, chat, tg, fmt>>

SIGINT(s) == cleanup(s)

SIGTERM(s) == cleanup(s)

\* client.close resolves: disconnect clears isConnected, cleanup returns and
\* the signal handler calls process.exit(0). Nothing is awaited between the
\* assignment and the exit.
CloseResolve(s) ==
    /\ ~exited
    /\ sig[s].pc = "closing"
    /\ isConnected' = FALSE
    /\ sig' = [sig EXCEPT ![s].pc = "done"]
    /\ exited' = TRUE
    /\ exitStatus' = 0
    /\ UNCHANGED <<telegramClient, handlers, loginCalls, closeCalls, req,
                   cleanupErrors, ctx, lst, srch, call, med, cls, chat, tg, fmt>>

\* What cleanup does with a failure of disconnect: its catch logs it, and
\* the signal handler goes on to process.exit(0). Uncaught, the rejection
\* of the async signal handler ends the process with status 1.
CleanupCatch_Uncaught(s) ==
    /\ exitStatus' = 1
    /\ UNCHANGED cleanupErrors
CleanupCatch(s) ==
    /\ exitStatus' = 0
    /\ cleanupErrors' = Bump(cleanupErrors)

\* client.close rejects.
CloseReject(s) ==
    /\ ~exited
    /\ sig[s].pc = "closing"
    /\ sig' = [sig EXCEPT ![s].pc = "failed"]
    /\ exited' = TRUE
    /\ CleanupCatch(s)
    /\ UNCHANGED <<telegramClient, handlers, isConnected, loginCalls, closeCalls, req,
                   ctx, lst, srch, call, med, cls, chat, tg, fmt>>

Next ==
    \/ \E r \in 1..MaxReq : CallTool(r)
    \/ \E r \in 1..MaxReq : LoginResolve(r)
    \/ \E r \in 1..MaxReq : LoginReject(r)
    \/ \E r \in 1..MaxReq : RemoteResolve(r)
    \/ \E r \in 1..MaxReq : RemoteReject(r)
    \/ \E r \in 1..MaxReq : Return(r)
    \/ \E s \in 1..MaxSig : SIGINT(s)
    \/ \E s \in 1..MaxSig : SIGTERM(s)
    \/ \E s \in 1..MaxSig : CloseResolve(s)
    \/ \E s \in 1..MaxSig : CloseReject(s)

Spec == Init /\ [][Next]_vars

(***************************************************************************)
(* One getMessageContext call (client.ts:610-683).                         *)
(*                                                                         *)
(* The chat holds the messages 1..MaxMsgs. Message i > 1 replies to        *)
(* message i - 1 and message 1 replies to message `back` (0: to nothing),  *)
(* so that the walk up from a message follows a chain (back = 0), meets a  *)
(* self-reply (back = 1) or runs into a cycle: every shape a walk over     *)
(* reply pointers can meet. The remote answers each getMessage with the    *)
(* message or with a failure.                                              *)
(*                                                                         *)
(*   argReplies, argThread   includeReplies and includeThread as the tool   *)
(*             call gives them: omitted, or given with a value             *)
(*   includeReplies, includeThread   the two after the schema's parse      *)
(*   pc        "main" (awaiting the target), "walk" (buildReplyChain       *)
(*             entered for `target` at `depth`), "thread", "done"          *)
(*   stack     the formatted replies of the buildReplyChain calls that     *)
(*             await their parentChain, outermost first                    *)
(*   mainFailed   the fetch of the target message failed                   *)
(*   fetches   the ids asked for by buildReplyChain, in order              *)
(*   failedAt  k when the k-th of these fetches failed, 0 when none did    *)
(*   thread, threadCalls, threadFailed   the thread list of the context,   *)
(*             the getMessageThread calls issued, and whether one failed   *)
(***************************************************************************)
MaxMsgs == 13     \* messages of the chat
MaxDepth == 10    \* client.ts:645

ThreadIds == {0, 5}
ThreadAnswers == {<<>>, <<3, 4>>}

replyTo(c, i) == IF i > 1 THEN i - 1 ELSE c.back

\* An optional boolean argument of a tool call.
OptionalBooleans ==
    {[given |-> FALSE, value |-> FALSE],
     [given |-> TRUE, value |-> TRUE],
     [given |-> TRUE, value |-> FALSE]}

\* z.boolean().default(d) applied to an optional boolean argument.
WithDefault_WhenFalsy(arg, d) == IF arg.given /\ arg.value THEN TRUE ELSE d
WithDefault(arg, d) == IF arg.given THEN arg.value ELSE d

CtxInit ==
    /\ ctx \in {c \in [pc : {"main"}, q : 1..MaxMsgs, back : 0..MaxMsgs,
                        argReplies : OptionalBooleans, argThread : OptionalBooleans,
                        includeReplies : BOOLEAN, includeThread : BOOLEAN,
                        threadId : ThreadIds,
                        depth : {0}, target : {0}, stack : {<<>>}, replyChain : {<<>>},
                        mainFailed : {FALSE},
                        fetches : {<<>>}, failedAt : {0}, thread : {<<>>},
                        threadCalls : {0}, threadFailed : {FALSE}, outcome : {"none"}] :
                    /\ c.includeReplies = WithDefault(c.argReplies, TRUE)
                    /\ c.includeThread = WithDefault(c.argThread, FALSE)}
    /\ DispatcherInit
    /\ lst = ListIdle
    /\ srch = SearchIdle
    /\ call = CallIdle
    /\ med = MediaIdle
    /\ cls = ClassifyIdle
    /\ OthersIdle

\* The chain a buildReplyChain call returns to getMessageContext when its
\* innermost call returns ret: each caller pushes its parentChain behind
\* its own formatted reply.
Unwind_OldestFirst(stack, ret) ==
    ret \o [i \in 1..Len(stack) |-> stack[Len(stack) + 1 - i]]
RECURSIVE Unwind(_, _)
Unwind(stack, ret) ==
    IF stack = <<>> THEN ret
    ELSE Unwind(SubSeq(stack, 1, Len(stack) - 1), <<stack[Len(stack)]>> \o ret)

\* After the reply chain: the thread is fetched when asked for and the
\* target has a thread id, else the context is returned.
AfterReplies(c) ==
    IF c.includeThread /\ c.threadId # 0
    THEN [c EXCEPT !.pc = "thread"]
    ELSE [c EXCEPT !.pc = "done", !.outcome = "ok"]

\* buildReplyChain's guard against endless walks.
TooDeep_OneDeeper(depth) == depth > MaxDepth + 1
TooDeep(depth) == depth > MaxDepth

\* buildReplyChain's catch: the call returns the empty chain.
BuildReplyChainCatch_Rethrow(c) ==
    [c EXCEPT !.pc = "done", !.outcome = withErrorHandling([type |-> "Error", code |-> "none", msg |-> "other"]).code,
              !.failedAt = Len(c.fetches) + 1,
              !.fetches = Append(c.fetches, c.target)]
BuildReplyChainCatch(c) ==
    AfterReplies([c EXCEPT !.replyChain = Unwind(c.stack, <<>>),
                           !.failedAt = Len(c.fetches) + 1,
                           !.fetches = Append(c.fetches, c.target)])

\* getMessageContext's catch: the failure is rethrown and the handler
\* classifies it.
GetMessageContextCatch_Empty(c, e) == AfterReplies(c)
GetMessageContextCatch(c, e) ==
    [c EXCEPT !.pc = "done", !.outcome = withErrorHandling(e).code]

\* getMessageContext awaits the target message: fetched, the walk starts
\* when replies are asked for and the target replies to a message.
getMessageContext ==
    /\ ctx.pc = "main"
    /\ \/ ctx' = IF ctx.includeReplies /\ replyTo(ctx, ctx.q) # 0
                 THEN [ctx EXCEPT !.pc = "walk", !.depth = 0, !.target = replyTo(ctx, ctx.q)]
                 ELSE AfterReplies(ctx)
       \/ \E e \in RemoteFailures :
             ctx' = GetMessageContextCatch([ctx EXCEPT !.mainFailed = TRUE], e)
    /\ UNCHANGED <<dvars, lst, srch, call, med, cls, chat, tg, fmt>>

\* One call of buildReplyChain(chatId, target, depth).
buildReplyChain ==
    /\ ctx.pc = "walk"
    /\ IF TooDeep(ctx.depth)
       THEN ctx' = AfterReplies([ctx EXCEPT !.replyChain = Unwind(ctx.stack, <<>>)])
       ELSE \/ LET c == [ctx EXCEPT !.fetches = Append(ctx.fetches, ctx.target),
                                    !.stack = Append(ctx.stack, ctx.target)] IN
               ctx' = IF replyTo(ctx, ctx.target) # 0
                      THEN [c EXCEPT !.depth = ctx.depth + 1,
                                     !.target = replyTo(ctx, ctx.target)]
                      ELSE AfterReplies([c EXCEPT !.replyChain = Unwind(c.stack, <<>>)])
            \/ ctx' = BuildReplyChainCatch(ctx)
    /\ UNCHANGED <<dvars, lst, srch, call, med, cls, chat, tg, fmt>>

\* getThreadMessages' catch: the call returns the empty list.
GetThreadMessagesCatch_Rethrow(c) ==
    [c EXCEPT !.pc = "done", !.threadFailed = TRUE,
              !.outcome = withErrorHandling([type |-> "Error", code |-> "none", msg |-> "other"]).code]
GetThreadMessagesCatch(c) ==
    [c EXCEPT !.pc = "done", !.outcome = "ok", !.thread = <<>>, !.threadFailed = TRUE]

\* getThreadMessages: one getMessageThread call, which resolves with the
\* thread's messages or rejects.
getThreadMessages ==
    /\ ctx.pc = "thread"
    /\ LET c == [ctx EXCEPT !.threadCalls = ctx.threadCalls + 1] IN
       \/ \E msgs \in ThreadAnswers :
             ctx' = [c EXCEPT !.pc = "done", !.outcome = "ok", !.thread = msgs]
       \/ ctx' = GetThreadMessagesCatch(c)
    /\ UNCHANGED <<dvars, lst, srch, call, med, cls, chat, tg, fmt>>

CtxNext ==
    \/ getMessageContext
    \/ buildReplyChain
    \/ getThreadMessages

CtxSpec == CtxInit /\ [][CtxNext]_vars

\* The same call when every remote request it awaits is answered, with the
\* message or with a failure: a step that is possible is taken.
CtxFairSpec == CtxSpec /\ WF_vars(CtxNext)

\* The message reached from message m by following i reply pointers, 0
\* when the chain ends before.
RECURSIVE Ancestor(_, _, _)
Ancestor(c, m, i) ==
    IF i = 0 \/ m = 0 THEN m ELSE Ancestor(c, replyTo(c, m), i - 1)

(***************************************************************************)
(* One listChats or searchChats call, down to the remote                   *)
(* (ChatHandler.ts:16-90, client.ts:103-134).                              *)
(*                                                                         *)
(* The account holds the chats 1..nAcc, most recent first. A string is a   *)
(* sequence of letters; chat k has the title ChatTitle(k) and the username *)
(* ChatUsername(k), <<>> when it has none. The remote answers getChats     *)
(* with the first `limit` chat ids, and each getChat with the chat or with *)
(* a failure.                                                              *)
(*                                                                         *)
(*   pc         "getChats", "getChat" (the loop over chat_ids), "done"     *)
(*   limit, limitGiven   the limit argument, when given                    *)
(*   query      the query argument of search_chats                         *)
(*   fetchLimit the limit given to client.getChats                         *)
(*   sliceLimit the end given to searchChats' slice                        *)
(*   ids        chats.chat_ids                                             *)
(*   chatInfos  the infos pushed so far                                    *)
(*   failed     the chats whose getChat failed                             *)
(*   shown      the chats of the rendered text, in order                   *)
(***************************************************************************)
MaxAccChats == 3      \* chats of the account
SearchChatsCap == 200 \* ChatHandler.ts:68
ListLimits == {1, 2, 50}

Min(a, b) == IF a < b THEN a ELSE b

Take(s, n) == SubSeq(s, 1, Min(n, Len(s)))

RECURSIVE Filter(_, _)
Filter(s, keep) ==
    IF s = <<>> THEN <<>>
    ELSE (IF s[1] \in keep THEN <<s[1]>> ELSE <<>>) \o Filter(Tail(s), keep)

ChatTitle(k) ==
    CASE k % 3 = 1 -> <<"A", "b">>
      [] k % 3 = 2 -> <<"b", "b">>
      [] OTHER -> <<"B", "a">>

ChatUsername(k) ==
    CASE k % 3 = 1 -> <<>>
      [] k % 3 = 2 -> <<"a", "B">>
      [] OTHER -> <<"b">>

Queries == {<<"a", "b">>, <<"A", "B">>, <<"b">>, <<"b", "a">>, <<"a", "a">>, <<"B", "B">>}

\* String.prototype.toLowerCase
toLowerCase_Identity(s) == s
toLowerCase(s) ==
    [i \in 1..Len(s) |-> CASE s[i] = "A" -> "a" [] s[i] = "B" -> "b" [] OTHER -> s[i]]

\* searchChats' filter predicate for chat k.
ChatMatches(k, query) ==
    \/ includes(toLowerCase(ChatTitle(k)), toLowerCase(query))
    \/ /\ ChatUsername(k) # <<>>
       /\ includes(toLowerCase(ChatUsername(k)), toLowerCase(query))

\* validated.limit || d
ListLimit(l, d) == IF l.limitGiven THEN l.limit ELSE d

ChatsInit ==
    /\ lst \in [pc : {"getChats"}, tool : {"list_chats", "search_chats"},
                limit : ListLimits, limitGiven : BOOLEAN, nAcc : 0..MaxAccChats,
                query : Queries, fetchLimit : {0}, sliceLimit : {0},
                ids : {<<>>}, i : {1}, chatInfos : {<<>>}, failed : {{}},
                shown : {<<>>}, outcome : {"none"}]
    /\ DispatcherInit
    /\ ctx = CtxIdle
    /\ srch = SearchIdle
    /\ call = CallIdle
    /\ med = MediaIdle
    /\ cls = ClassifyIdle
    /\ OthersIdle

\* The limit the handler passes to client.getChats.
FetchLimit(l) == IF l.tool = "list_chats" THEN ListLimit(l, 50) ELSE SearchChatsCap

\* The handler's text once getChats has returned chatInfos.
RenderChats(l, chatInfos) ==
    [l EXCEPT !.pc = "done", !.outcome = "ok", !.chatInfos = chatInfos,
              !.sliceLimit = IF l.tool = "list_chats" THEN 0 ELSE ListLimit(l, 20),
              !.shown = IF l.tool = "list_chats"
                        THEN chatInfos
                        ELSE Take(Filter(chatInfos,
                                         {k \in 1..l.nAcc : ChatMatches(k, l.query)}),
                                  ListLimit(l, 20))]

\* The loop of getChats after the chat at l.i has been dealt with.
NextChat(l, chatInfos, failed) ==
    IF l.i < Len(l.ids)
    THEN [l EXCEPT !.i = l.i + 1, !.chatInfos = chatInfos, !.failed = failed]
    ELSE RenderChats([l EXCEPT !.failed = failed], chatInfos)

\* client.getChats awaits the chat list: a failure is rethrown and the
\* handler classifies it.
getChats ==
    /\ lst.pc = "getChats"
    /\ LET l == [lst EXCEPT !.fetchLimit = FetchLimit(lst)] IN
       \/ LET ids == [k \in 1..Min(l.fetchLimit, l.nAcc) |-> k] IN
          lst' = IF ids = <<>>
                 THEN RenderChats([l EXCEPT !.ids = ids], <<>>)
                 ELSE [l EXCEPT !.pc = "getChat", !.ids = ids, !.i = 1]
       \/ \E e \in RemoteFailures :
             lst' = [l EXCEPT !.pc = "done", !.outcome = withErrorHandling(e).code]
    /\ UNCHANGED <<dvars, ctx, srch, call, med, cls, chat, tg, fmt>>

\* One turn of the loop over chat_ids: the info is pushed, or the failure
\* is logged as a warning and the chat left out.
getChat ==
    /\ lst.pc = "getChat"
    /\ \/ lst' = NextChat(lst, Append(lst.chatInfos, lst.ids[lst.i]), lst.failed)
       \/ lst' = NextChat(lst, lst.chatInfos, lst.failed \cup {lst.ids[lst.i]})
    /\ UNCHANGED <<dvars, ctx, srch, call, med, cls, chat, tg, fmt>>

ChatsNext ==
    \/ getChats
    \/ getChat

ChatsSpec == ChatsInit /\ [][ChatsNext]_vars

(***************************************************************************)
(* One searchMessages call (client.ts:217-278), scoped to the chat chatId  *)
(* or, with chatId 0 (not given), unscoped.                                *)
(*                                                                         *)
(* getChats returns the chats 1..n in list order. Chat c holds             *)
(* Hits(c) messages that match the query: hitsOdd of them in the odd       *)
(* chats, hitsEven in the even ones. The remote answers a search of chat   *)
(* c under a limit with the first `limit` matches <<c, 1>>, <<c, 2>>, ..   *)
(* and, when it reports counts, with total_count = Hits(c); or it fails.   *)
(*                                                                         *)
(*   pc           "scoped" (awaiting the one search of chatId), "chats"    *)
(*                (awaiting getChats), "loop", "done"                      *)
(*   getChatsCalls   the limits getChats was called with, in order         *)
(*   i            the chat the loop is at                                  *)
(*   asked        the searches issued: <<chat, limit>> in order            *)
(*   failed       the chats whose search failed                            *)
(*   allMessages, totalFound   the loop's accumulators                     *)
(*   messages, totalCount      the SearchResult returned                   *)
(***************************************************************************)
MaxRecent == 12       \* chats getChats returns
RecentChats == 20     \* client.ts:240
SearchedChats == 10   \* client.ts:244
PerChatCap == 10      \* client.ts:253
HitCounts == {0, 3, 12}
SearchLimits == {1, 5, 20}

SearchInit ==
    /\ srch \in {s \in [pc : {"chats", "scoped"}, chatId : {0, 1, 2},
                         limit : SearchLimits, n : 0..MaxRecent,
                         hitsOdd : HitCounts, hitsEven : HitCounts, reports : BOOLEAN,
                         getChatsCalls : {<<>>},
                         i : {1}, asked : {<<>>}, failed : {{}},
                         allMessages : {<<>>}, totalFound : {0},
                         messages : {<<>>}, totalCount : {0}, outcome : {"none"}] :
                      /\ (s.pc = "chats") <=> (s.chatId = 0)
                      /\ s.chatId # 0 => s.n = MaxRecent}
    /\ DispatcherInit
    /\ ctx = CtxIdle
    /\ lst = ListIdle
    /\ call = CallIdle
    /\ med = MediaIdle
    /\ cls = ClassifyIdle
    /\ OthersIdle

Hits(s, c) == IF c % 2 = 1 THEN s.hitsOdd ELSE s.hitsEven

\* The messages the remote returns for a search of chat c under limit lim.
RemoteSearch(s, c, lim) == [k \in 1..Min(Hits(s, c), lim) |-> <<c, k>>]

\* The chats the loop runs over: chats.slice(0, 10) of the chats that
\* getChats(20) returned.
LoopChats_All(s) == Min(s.n, RecentChats)
LoopChats(s) == Min(Min(s.n, RecentChats), SearchedChats)

\* total_count || messages.length: the count the remote reports, or the
\* number of messages when it reports none (0 stands for no count).
CountOf_Observed(total_count, messages) == Len(messages)
CountOf(total_count, messages) ==
    IF total_count # 0 THEN total_count ELSE Len(messages)

\* The scoped branch: one search of chatId under the caller's limit; a
\* failure is rethrown and the handler classifies it.
searchChatMessages ==
    /\ srch.pc = "scoped"
    /\ LET s == [srch EXCEPT !.asked = Append(srch.asked, <<srch.chatId, srch.limit>>)] IN
       \/ LET messages == RemoteSearch(s, s.chatId, s.limit)
              total_count == IF s.reports THEN Hits(s, s.chatId) ELSE 0 IN
          srch' = [s EXCEPT !.pc = "done", !.outcome = "ok",
                            !.messages = messages,
                            !.totalCount = CountOf(total_count, messages)]
       \/ \E e \in RemoteFailures :
             srch' = [s EXCEPT !.pc = "done", !.outcome = withErrorHandling(e).code]
    /\ UNCHANGED <<dvars, ctx, lst, call, med, cls, chat, tg, fmt>>

\* The SearchResult returned once the loop has ended.
SearchReturn(s) ==
    [s EXCEPT !.pc = "done", !.outcome = "ok",
              !.messages = Take(s.allMessages, s.limit),
              !.totalCount = s.totalFound]

\* The loop after the chat at s.i: on to the next chat, or out of the loop.
SearchContinue(s) ==
    IF s.i < LoopChats(s) THEN [s EXCEPT !.i = s.i + 1] ELSE SearchReturn(s)

\* The loop's catch: the chat is skipped.
SearchChatCatch_Abort(s) ==
    [s EXCEPT !.pc = "done", !.failed = s.failed \cup {s.i},
              !.outcome = withErrorHandling([type |-> "Error", code |-> "none", msg |-> "other"]).code]
SearchChatCatch(s) ==
    SearchContinue([s EXCEPT !.failed = s.failed \cup {s.i}])

\* searchMessages awaits getChats(20): a failure is rethrown and the
\* handler classifies it.
searchMessages ==
    /\ srch.pc = "chats"
    /\ LET s == [srch EXCEPT !.getChatsCalls = Append(srch.getChatsCalls, RecentChats)] IN
       \/ srch' = IF LoopChats(s) = 0
                  THEN SearchReturn(s)
                  ELSE [s EXCEPT !.pc = "loop", !.i = 1]
       \/ \E e \in RemoteFailures :
             srch' = [s EXCEPT !.pc = "done", !.outcome = withErrorHandling(e).code]
    /\ UNCHANGED <<dvars, ctx, lst, call, med, cls, chat, tg, fmt>>

\* One turn of the loop: the search of chat srch.i resolves or rejects.
searchChat ==
    /\ srch.pc = "loop"
    /\ LET lim == Min(srch.limit, PerChatCap)
           s == [srch EXCEPT !.asked = Append(srch.asked, <<srch.i, lim>>)] IN
       \/ LET chatMessages == RemoteSearch(s, s.i, lim)
              total_count == IF s.reports THEN Hits(s, s.i) ELSE 0
              a == [s EXCEPT !.allMessages = s.allMessages \o chatMessages,
                             !.totalFound = s.totalFound +
                                 CountOf(total_count, chatMessages)] IN
          srch' = IF Len(a.allMessages) >= a.limit
                  THEN SearchReturn(a)
                  ELSE SearchContinue(a)
       \/ srch' = SearchChatCatch(s)
    /\ UNCHANGED <<dvars, ctx, lst, call, med, cls, chat, tg, fmt>>

SearchNext ==
    \/ searchChatMessages
    \/ searchMessages
    \/ searchChat

SearchSpec == SearchInit /\ [][SearchNext]_vars

\* The matches the remote returns for the chats first..LoopChats(s) other
\* than the failed ones, in chat order.
RECURSIVE OtherChatsMatches(_, _)
OtherChatsMatches(s, first) ==
    IF first > LoopChats(s) THEN <<>>
    ELSE (IF first \in s.failed THEN <<>>
          ELSE RemoteSearch(s, first, Min(s.limit, PerChatCap)))
         \o OtherChatsMatches(s, first + 1)

InSeq(x, seq) == \E k \in 1..Len(seq) : seq[k] = x

(***************************************************************************)
(* One handler call against a mocked client (the handlers of               *)
(* src/src/handlers and src/unnamed/part_002, the schemas of               *)
(* src/src/schemas/index.ts).                                              *)
(*                                                                         *)
(* The arguments are a record of the chat-id fields, the limit and the     *)
(* messageIds, each absent or given, and of `rest`: the arguments are an   *)
(* object and every other field of the tool's schema is valid. The mocked  *)
(* client records                                                          *)
(* each call made on it and resolves or rejects it.                        *)
(*                                                                         *)
(*   pc       "args" (the handler is about to run) or "done"               *)
(*   calls    the client calls made, in order                              *)
(*   outcome  "none", "ok" or one of ErrorCodes                            *)
(***************************************************************************)
Absent == "absent"
ChatIdValues == {Absent, "", "me", "self", "123"}
FromChatIdValues == {Absent, "", "456"}
ToChatIdValues == {Absent, "", "789"}
\* A limit: omitted, or given with a value.
LimitValues == {[given |-> FALSE, value |-> 0]}
               \cup [given : {TRUE}, value : {-1, 0, 1, 20, 50, 100, 101, 200, 201}]
\* messageIds: omitted, or given as an array of numbers.
MessageIdsValues == {[given |-> FALSE, value |-> <<>>]}
                    \cup [given : {TRUE}, value : {<<>>, <<7>>, <<7, 8>>}]
\* What the mocked getMe resolves with, and me.id.toString().
Me == [id |-> 12345]
MeId == ToString(Me.id)

ToolArgs == [chatId : ChatIdValues, fromChatId : FromChatIdValues,
             toChatId : ToChatIdValues, limit : LimitValues,
             messageIds : MessageIdsValues, rest : BOOLEAN]

ToolInit ==
    /\ call \in [pc : {"args"}, tool : ToolNames, args : ToolArgs,
                 calls : {<<>>}, outcome : {"none"}]
    /\ DispatcherInit
    /\ ctx = CtxIdle
    /\ lst = ListIdle
    /\ srch = SearchIdle
    /\ med = MediaIdle
    /\ cls = ClassifyIdle
    /\ OthersIdle

\* z.string().min(1)
NonEmptyString(v) == v # Absent /\ v # ""

\* z.string().optional()
OptionalString(v) == TRUE

\* z.number().min(lo).max(hi).default(d).optional()
OptionalLimit(v, lo, hi) == ~v.given \/ (v.value >= lo /\ v.value <= hi)

\* z.array(z.number()).min(1)
NonEmptyArray_AnyArray(v) == v.given
NonEmptyArray(v) == v.given /\ Len(v.value) >= 1

\* The tools whose schema holds chatId: z.string().min(1).
ChatIdTools == {"get_chat_info", "get_messages", "send_message", "mark_as_read",
                "get_media_content", "send_media", "get_media_info", "edit_message",
                "delete_message", "get_message_context", "send_document",
                "download_file", "get_file_info"}

\* Schema.parse(args) succeeds.
SchemaOk(tool, a) ==
    /\ a.rest
    /\ tool \in ChatIdTools => NonEmptyString(a.chatId)
    /\ tool = "search_messages" => OptionalString(a.chatId)
    /\ tool = "forward_message" =>
           (NonEmptyString(a.fromChatId) /\ NonEmptyString(a.toChatId))
    /\ tool = "mark_as_read" => NonEmptyArray(a.messageIds)
    /\ tool = "list_chats" => OptionalLimit(a.limit, 1, 200)
    /\ tool \in {"search_chats", "get_messages", "search_messages"} =>
           OptionalLimit(a.limit, 1, 100)

\* validated.limit || d
LimitOr_AlwaysDefault(a, d) == d
LimitOr(a, d) == IF ~a.limit.given \/ a.limit.value = 0 THEN d ELSE a.limit.value

\* A recorded client call: the method, its chat id argument (Absent when it
\* has none), its limit argument (0 when it has none) and its second chat
\* id argument (forwardMessage's toChatId).
ClientCall(method, chatId, limit) ==
    [method |-> method, chatId |-> chatId, limit |-> limit, to |-> Absent]

\* getMessages' test for the caller's own chat.
IsSelfAlias_MeOnly(chatId) == chatId = "me"
IsSelfAlias(chatId) == chatId = "me" \/ chatId = "self"

\* The client calls a handler makes with validated arguments when each
\* call resolves, in order.
ClientCalls(tool, a) ==
    CASE tool = "list_chats" -> <<ClientCall("getChats", Absent, LimitOr(a, 50))>>
      [] tool = "get_chat_info" -> <<ClientCall("getChatInfo", a.chatId, 0)>>
      [] tool = "search_chats" -> <<ClientCall("getChats", Absent, SearchChatsCap)>>
      [] tool = "get_messages" ->
            IF IsSelfAlias(a.chatId)
            THEN <<ClientCall("getMe", Absent, 0),
                   ClientCall("getMessages", MeId, LimitOr(a, 20))>>
            ELSE <<ClientCall("getMessages", a.chatId, LimitOr(a, 20))>>
      [] tool = "send_message" -> <<ClientCall("sendMessage", a.chatId, 0)>>
      [] tool = "search_messages" ->
            <<ClientCall("searchMessages", a.chatId, LimitOr(a, 20))>>
      [] tool = "mark_as_read" -> <<ClientCall("markAsRead", a.chatId, 0)>>
      [] tool = "get_user_info" -> <<ClientCall("getUserInfo", Absent, 0)>>
      [] tool = "get_media_content" -> <<ClientCall("getMediaContent", a.chatId, 0)>>
      [] tool = "send_media" -> <<ClientCall("sendMedia", a.chatId, 0)>>
      [] tool = "get_media_info" -> <<ClientCall("getMediaInfo", a.chatId, 0)>>
      [] tool = "edit_message" -> <<ClientCall("editMessage", a.chatId, 0)>>
      [] tool = "delete_message" -> <<ClientCall("deleteMessage", a.chatId, 0)>>
      [] tool = "forward_message" ->
            <<[ClientCall("forwardMessage", a.fromChatId, 0) EXCEPT !.to = a.toChatId]>>
      [] tool = "get_message_context" ->
            <<ClientCall("getMessageContext", a.chatId, 0)>>
      [] tool = "send_document" -> <<ClientCall("sendDocument", a.chatId, 0)>>
      [] tool = "download_file" -> <<ClientCall("downloadFile", a.chatId, 0)>>
      [] tool = "get_file_info" -> <<ClientCall("getFileInfo", a.chatId, 0)>>

\* A handler: withErrorHandling around parse, the client calls and the
\* rendering. failAt: the call the mocked client rejects, 0 for none.
Handle(tool) ==
    /\ call.pc = "args"
    /\ call.tool = tool
    /\ IF ~SchemaOk(tool, call.args)
       THEN call' = [call EXCEPT !.pc = "done",
                                 !.outcome = withErrorHandling(ParseFailure).code]
       ELSE LET plan == ClientCalls(tool, call.args) IN
            \E failAt \in 0..Len(plan) :
                IF failAt = 0
                THEN call' = [call EXCEPT !.pc = "done", !.outcome = "ok", !.calls = plan]
                ELSE \E e \in Failures :
                        call' = [call EXCEPT !.pc = "done",
                                             !.outcome = withErrorHandling(e).code,
                                             !.calls = SubSeq(plan, 1, failAt)]
    /\ UNCHANGED <<dvars, ctx, lst, srch, med, cls, chat, tg, fmt>>

listChats == Handle("list_chats")
getChatInfo == Handle("get_chat_info")
searchChats == Handle("search_chats")
getMessages == Handle("get_messages")
sendMessage == Handle("send_message")
searchMessagesTool == Handle("search_messages")
markAsRead == Handle("mark_as_read")
getUserInfo == Handle("get_user_info")
getMediaContent == Handle("get_media_content")
sendMedia == Handle("send_media")
getMediaInfo == Handle("get_media_info")
editMessage == Handle("edit_message")
deleteMessage == Handle("delete_message")
forwardMessage == Handle("forward_message")
getMessageContextTool == Handle("get_message_context")
sendDocument == Handle("send_document")
downloadFile == Handle("download_file")
getFileInfo == Handle("get_file_info")

ToolNext ==
    \/ listChats
    \/ getChatInfo
    \/ searchChats
    \/ getMessages
    \/ sendMessage
    \/ searchMessagesTool
    \/ markAsRead
    \/ getUserInfo
    \/ getMediaContent
    \/ sendMedia
    \/ getMediaInfo
    \/ editMessage
    \/ deleteMessage
    \/ forwardMessage
    \/ getMessageContextTool
    \/ sendDocument
    \/ downloadFile
    \/ getFileInfo

ToolSpec == ToolInit /\ [][ToolNext]_vars

(***************************************************************************)
(* One getMediaInfo or getFileInfo call, down to the remote                *)
(* (MessageHandler.ts:181-216 and 373-408, client.ts:448-498 and 787-822). *)
(*                                                                         *)
(* The remote answers getMessage with a message whose content is of one of *)
(* the kinds of MessageContents ("none": a message without content), or    *)
(* with a failure.                                                         *)
(*                                                                         *)
(*   pc       "lookup" (the client operation awaits getMessage), "render"  *)
(*            (the handler has the operation's result), "done"             *)
(*   fetched  getMessage has resolved                                      *)
(*   err      the failure getMessage rejected with, NoFailure before       *)
(*   result   "none", "null" or "info": what the client operation returned *)
(*   text     "none", "nothing found" or "information": the text rendered  *)
(***************************************************************************)
MediaContents == {"photo", "video", "document", "audio", "voice_note", "sticker",
                  "animation"}
MessageContents == MediaContents \cup {"text", "video_note", "none"}

NoFailure == [type |-> "none", code |-> "none", msg |-> "none"]

MediaInit ==
    /\ med \in [pc : {"lookup"}, tool : {"get_media_info", "get_file_info"},
                content : MessageContents, fetched : {FALSE}, err : {NoFailure},
                result : {"none"}, text : {"none"}, outcome : {"none"}]
    /\ DispatcherInit
    /\ ctx = CtxIdle
    /\ lst = ListIdle
    /\ srch = SearchIdle
    /\ call = CallIdle
    /\ cls = ClassifyIdle
    /\ OthersIdle

hasMedia(content) == content \in MediaContents

\* The file of the message, "null" when its content holds none.
extractFileFromMessage(content) == IF content \in MediaContents THEN "file" ELSE "null"

\* The client operation once getMessage has resolved with the message.
MediaResult(content) ==
    IF ~hasMedia(content) THEN "null"
    ELSE IF extractFileFromMessage(content) = "null" THEN "null"
    ELSE "info"

\* The client operation: getMessage resolves and the operation returns, or
\* getMessage rejects, the operation rethrows and the handler classifies.
MediaLookup(tool) ==
    /\ med.pc = "lookup"
    /\ med.tool = tool
    /\ \/ med' = [med EXCEPT !.pc = "render", !.fetched = TRUE,
                              !.result = MediaResult(med.content)]
       \/ \E e \in RemoteFailures :
             med' = [med EXCEPT !.pc = "done", !.err = e,
                                !.outcome = withErrorHandling(e).code]
    /\ UNCHANGED <<dvars, ctx, lst, srch, call, cls, chat, tg, fmt>>

clientGetMediaInfo == MediaLookup("get_media_info")

clientGetFileInfo == MediaLookup("get_file_info")

\* The handler's answer to a null result: a text, not an error.
NothingFound_Throws(m) ==
    [m EXCEPT !.pc = "done",
              !.outcome = withErrorHandling([type |-> "Error", code |-> "none", msg |-> "other"]).code]
NothingFound(m) ==
    [m EXCEPT !.pc = "done", !.outcome = "ok", !.text = "nothing found"]

\* The handler with the result of the client operation.
MediaRender(tool) ==
    /\ med.pc = "render"
    /\ med.tool = tool
    /\ med' = IF med.result = "null"
              THEN NothingFound(med)
              ELSE [med EXCEPT !.pc = "done", !.outcome = "ok", !.text = "information"]
    /\ UNCHANGED <<dvars, ctx, lst, srch, call, cls, chat, tg, fmt>>

renderMediaInfo == MediaRender("get_media_info")

renderFileInfo == MediaRender("get_file_info")

MediaNext ==
    \/ clientGetMediaInfo
    \/ clientGetFileInfo
    \/ renderMediaInfo
    \/ renderFileInfo

MediaSpec == MediaInit /\ [][MediaNext]_vars

(***************************************************************************)
(* One failure value given to the classifier (ErrorHandler.ts:5-47).       *)
(*                                                                         *)
(*   pc      "raised" (the value is at hand), "returned" (handleError has  *)
(*           returned its McpError) or "rejected" (withErrorHandling has   *)
(*           rethrown it)                                                  *)
(*   error   the failure value                                             *)
(*   given   what the last handleError call was given                      *)
(*   result  the McpError returned or rethrown, NoFailure before           *)
(*   passes  the handleError calls made                                    *)
(***************************************************************************)
MaxPasses == 2    \* times the classifier is applied to its own result

ClassifyInit ==
    /\ cls \in [pc : {"raised"}, error : Failures, given : {NoFailure},
                result : {NoFailure}, passes : {0}]
    /\ DispatcherInit
    /\ ctx = CtxIdle
    /\ lst = ListIdle
    /\ srch = SearchIdle
    /\ call = CallIdle
    /\ med = MediaIdle
    /\ OthersIdle

\* ErrorHandler.handleError called with the failure value, or with the
\* McpError a call before has returned.
handleErrorCall ==
    /\ cls.pc \in {"raised", "returned"}
    /\ cls.passes < MaxPasses
    /\ LET e == IF cls.pc = "raised" THEN cls.error ELSE cls.result IN
       cls' = [cls EXCEPT !.pc = "returned", !.given = e, !.result = handleError(e),
                          !.passes = cls.passes + 1]
    /\ UNCHANGED <<dvars, ctx, lst, srch, call, med, chat, tg, fmt>>

\* ErrorHandler.withErrorHandling around an operation that throws the
\* failure value.
withErrorHandlingCall ==
    /\ cls.pc = "raised"
    /\ cls' = [cls EXCEPT !.pc = "rejected", !.given = cls.error,
                          !.result = withErrorHandling(cls.error)]
    /\ UNCHANGED <<dvars, ctx, lst, srch, call, med, chat, tg, fmt>>

ClassifyNext ==
    \/ handleErrorCall
    \/ withErrorHandlingCall

ClassifySpec == ClassifyInit /\ [][ClassifyNext]_vars

(***************************************************************************)
(* Two get_chat_info calls for one chat id, one after the other            *)
(* (ChatHandler.ts:40-63, client.ts:156-170, 830-855, 977-990).            *)
(*                                                                         *)
(* The remote state does not change: it holds the chat `raw` for the id,   *)
(* or (exists = FALSE) answers getChat for it with the failure `err`. The  *)
(* clock of the process moves on between the calls.                        *)
(*                                                                         *)
(*   pc       "idle" or "done" (the two calls have been answered)          *)
(*   now      the clock of the process                                     *)
(*   answers  the answers given so far: the text, or the McpError          *)
(***************************************************************************)
MaxClock == 2     \* ticks of the clock
ChatInfoCalls == 2

RawChatTypes == {[kind |-> "chatTypePrivate", is_channel |-> FALSE],
                 [kind |-> "chatTypeBasicGroup", is_channel |-> FALSE],
                 [kind |-> "chatTypeSupergroup", is_channel |-> FALSE],
                 [kind |-> "chatTypeSupergroup", is_channel |-> TRUE],
                 [kind |-> "chatTypeSecret", is_channel |-> FALSE],
                 [kind |-> "none", is_channel |-> FALSE]}

\* The chat objects getChat resolves with; "" and 0 stand for a field that
\* is absent or empty.
RawChats == [id : {123}, title : {"", "Dev"}, type : RawChatTypes,
             username : {"", "dev"}, member_count : {0, 5},
             description : {"", "About"}]

ChatInfoInit ==
    /\ chat \in [pc : {"idle"}, exists : BOOLEAN, raw : RawChats,
                 err : {e \in RemoteFailures : e.msg \in {"CHAT_ID_INVALID", "other"}},
                 now : {0}, answers : {<<>>}]
    /\ DispatcherInit
    /\ ctx = CtxIdle
    /\ lst = ListIdle
    /\ srch = SearchIdle
    /\ call = CallIdle
    /\ med = MediaIdle
    /\ cls = ClassifyIdle
    /\ tg = ClientIdle
    /\ fmt = FormatIdle

getChatType(type) ==
    CASE type.kind = "chatTypePrivate" -> "private"
      [] type.kind = "chatTypeBasicGroup" -> "group"
      [] type.kind = "chatTypeSupergroup" -> IF type.is_channel THEN "channel" ELSE "supergroup"
      [] type.kind = "chatTypeSecret" -> "secret"
      [] OTHER -> "private"

\* The ChatInfo of a chat object; "" and 0 for the fields left unset.
formatChatInfo(c) ==
    [id |-> ToString(c.id),
     title |-> IF c.type.kind \in {"chatTypePrivate", "chatTypeSecret"}
               THEN (IF c.title # "" THEN c.title ELSE "Private Chat")
               ELSE (IF c.title # "" THEN c.title ELSE "Unknown"),
     type |-> getChatType(c.type),
     username |-> c.username,
     memberCount |-> c.member_count,
     description |-> c.description]

\* The text of getChatInfo for a ChatInfo, rendered when the clock of the
\* process shows `now`.
ChatInfoText_Stamped(info, now) ==
    "**Chat Information:** " \o ToString(now) \o " Title: " \o info.title
ChatInfoText(info, now) ==
    "**Chat Information:**\n\n"
    \o "Title: " \o info.title \o "\n"
    \o "ID: " \o info.id \o "\n"
    \o "Type: " \o info.type \o "\n"
    \o (IF info.username # "" THEN "Username: @" \o info.username \o "\n" ELSE "")
    \o (IF info.memberCount # 0 THEN "Members: " \o ToString(info.memberCount) \o "\n" ELSE "")
    \o (IF info.description # "" THEN "Description: " \o info.description \o "\n" ELSE "")

\* One get_chat_info call: the handler's text, or the classified failure
\* of the getChat invoke.
clientGetChatInfo ==
    /\ chat.pc = "idle"
    /\ LET answer == IF chat.exists
                     THEN [type |-> "text", code |-> "ok",
                           msg |-> ChatInfoText(formatChatInfo(chat.raw), chat.now)]
                     ELSE withErrorHandling(chat.err)
           answers == Append(chat.answers, answer) IN
       chat' = [chat EXCEPT !.answers = answers,
                            !.pc = IF Len(answers) = ChatInfoCalls THEN "done" ELSE "idle"]
    /\ UNCHANGED <<dvars, ctx, lst, srch, call, med, cls, tg, fmt>>

\* Time passes.
Tick ==
    /\ chat.pc = "idle"
    /\ chat.now < MaxClock
    /\ chat' = [chat EXCEPT !.now = chat.now + 1]
    /\ UNCHANGED <<dvars, ctx, lst, srch, call, med, cls, tg, fmt>>

ChatInfoNext ==
    \/ clientGetChatInfo
    \/ Tick

ChatInfoSpec == ChatInfoInit /\ [][ChatInfoNext]_vars

(***************************************************************************)
(* One TelegramClient object whose connect() and disconnect() are called   *)
(* one after the other, each awaited before the next (client.ts:54-73,     *)
(* 992-997), as the setup scripts and the unit tests call them.            *)
(*                                                                         *)
(*   pc           "idle", "login" (connect awaits client.login) or         *)
(*                "close" (disconnect awaits client.close)                 *)
(*   isConnected  the field of the object                                  *)
(*   log          one record per call that has returned or thrown:         *)
(*                  call    "connect" or "disconnect"                      *)
(*                  before  isConnected when the call was made             *)
(*                  remote  "none", "login" or "close": what it called     *)
(*                          on the underlying client                       *)
(*                  ok      the call returned (FALSE: it threw)            *)
(*                  after   isConnected when it returned or threw          *)
(*                  error   the message of the Error thrown, "" when none  *)
(***************************************************************************)
MaxCalls == 4     \* connect and disconnect calls made on the object

ConnInit ==
    /\ tg = [pc |-> "idle", isConnected |-> FALSE, before |-> FALSE, log |-> <<>>]
    /\ DispatcherInit
    /\ ctx = CtxIdle
    /\ lst = ListIdle
    /\ srch = SearchIdle
    /\ call = CallIdle
    /\ med = MediaIdle
    /\ cls = ClassifyIdle
    /\ chat = ChatInfoIdle
    /\ fmt = FormatIdle

\* The call has returned or thrown.
Logged(t, c, remote, ok, after, error) ==
    [t EXCEPT !.pc = "idle", !.isConnected = after,
              !.log = Append(t.log, [call |-> c, before |-> t.before, remote |-> remote,
                                     ok |-> ok, after |-> after, error |-> error])]

\* connect's first line: nothing to do when connected.
AlreadyConnected_Never(t) == FALSE
AlreadyConnected(t) == t.isConnected

\* connect() up to its await.
connect ==
    /\ tg.pc = "idle"
    /\ Len(tg.log) < MaxCalls
    /\ LET t == [tg EXCEPT !.before = tg.isConnected] IN
       tg' = IF AlreadyConnected(t)
             THEN Logged(t, "connect", "none", TRUE, t.isConnected, "")
             ELSE [t EXCEPT !.pc = "login"]
    /\ UNCHANGED <<dvars, ctx, lst, srch, call, med, cls, chat, fmt>>

\* client.login resolves: connect sets isConnected and returns.
loginResolved ==
    /\ tg.pc = "login"
    /\ tg' = Logged(tg, "connect", "login", TRUE, TRUE, "")
    /\ UNCHANGED <<dvars, ctx, lst, srch, call, med, cls, chat, fmt>>

\* client.login rejects with e: connect throws a new Error.
loginRejected ==
    /\ tg.pc = "login"
    /\ \E e \in RemoteFailures :
         tg' = Logged(tg, "connect", "login", FALSE, tg.isConnected,
                      "Telegram connection failed: "
                      \o (IF e.type = "Error" THEN e.msg ELSE "Unknown error"))
    /\ UNCHANGED <<dvars, ctx, lst, srch, call, med, cls, chat, fmt>>

\* disconnect() up to its await.
disconnect ==
    /\ tg.pc = "idle"
    /\ Len(tg.log) < MaxCalls
    /\ LET t == [tg EXCEPT !.before = tg.isConnected] IN
       tg' = IF t.isConnected
             THEN [t EXCEPT !.pc = "close"]
             ELSE Logged(t, "disconnect", "none", TRUE, t.isConnected, "")
    /\ UNCHANGED <<dvars, ctx, lst, srch, call, med, cls, chat, fmt>>

\* client.close resolves: disconnect clears isConnected and returns.
closeResolved ==
    /\ tg.pc = "close"
    /\ tg' = Logged(tg, "disconnect", "close", TRUE, FALSE, "")
    /\ UNCHANGED <<dvars, ctx, lst, srch, call, med, cls, chat, fmt>>

\* client.close rejects with e: disconnect throws e.
closeRejected ==
    /\ tg.pc = "close"
    /\ \E e \in RemoteFailures :
         tg' = Logged(tg, "disconnect", "close", FALSE, tg.isConnected, e.msg)
    /\ UNCHANGED <<dvars, ctx, lst, srch, call, med, cls, chat, fmt>>

ConnNext ==
    \/ connect
    \/ loginResolved
    \/ loginRejected
    \/ disconnect
    \/ closeResolved
    \/ closeRejected

ConnSpec == ConnInit /\ [][ConnNext]_vars

(***************************************************************************)
(* One TelegramClient object and the public operations called on it        *)
(* (client.ts:103-822), as the callers of this repository call them: the   *)
(* server runs operations of several tool invocations at once and calls    *)
(* disconnect() only from cleanup(), which the signal handler follows with *)
(* process.exit (index.ts:516-537); the scripts await each operation and   *)
(* call disconnect() when none is running (auth.ts, scripts/test-setup.js).*)
(*                                                                         *)
(*   pc           "ops" throughout                                         *)
(*   isConnected  the field of the object                                  *)
(*   down         "idle"; "close": a script's disconnect awaits            *)
(*                client.close; "shutdown": cleanup's disconnect does      *)
(*   exited       process.exit has run                                     *)
(*   ops          per caller, the operation it runs:                       *)
(*                  pc        "idle", "connecting" (ensureConnected awaits *)
(*                            connect), "invoking", "done", "failed"       *)
(*                  invokes   the client.invoke calls it has issued        *)
(*                  left      the invokes it still issues when the pending *)
(*                            one resolves                                 *)
(*                  loginFailed  its ensureConnected threw                 *)
(*   starts       operations started                                       *)
(*   issuedWhile  the values isConnected had when a client.invoke was      *)
(*                issued                                                   *)
(***************************************************************************)
MaxOps == 2       \* operations in flight at once
MaxInvokes == 2   \* client.invoke calls of one operation
MaxStarts == 3    \* operations started

IdleOp == [pc |-> "idle", invokes |-> 0, left |-> 0, loginFailed |-> FALSE]

OpsInit ==
    /\ tg = [pc |-> "ops", isConnected |-> FALSE, down |-> "idle", exited |-> FALSE,
             ops |-> [o \in 1..MaxOps |-> IdleOp], starts |-> 0, issuedWhile |-> {}]
    /\ DispatcherInit
    /\ ctx = CtxIdle
    /\ lst = ListIdle
    /\ srch = SearchIdle
    /\ call = CallIdle
    /\ med = MediaIdle
    /\ cls = ClassifyIdle
    /\ chat = ChatInfoIdle
    /\ fmt = FormatIdle

\* ensureConnected's test.
NeedsConnect_Never(t) == FALSE
NeedsConnect(t) == ~t.isConnected

\* Operation o issues a client.invoke and awaits it; n more follow it.
Invoke(t, o, n) ==
    [t EXCEPT !.ops[o].pc = "invoking",
              !.ops[o].invokes = t.ops[o].invokes + 1,
              !.ops[o].left = n,
              !.issuedWhile = t.issuedWhile \cup {t.isConnected}]

InFlight(t, o) == t.ops[o].pc \in {"connecting", "invoking"}

\* A public operation is called: ensureConnected, then its first invoke.
ClientOperation(o) ==
    /\ ~tg.exited
    /\ tg.down # "close"
    /\ ~InFlight(tg, o)
    /\ tg.starts < MaxStarts
    /\ \E n \in 1..MaxInvokes :
         LET t == [tg EXCEPT !.starts = tg.starts + 1,
                             !.ops[o] = [IdleOp EXCEPT !.left = n]] IN
         tg' = IF NeedsConnect(t)
               THEN [t EXCEPT !.ops[o].pc = "connecting"]
               ELSE Invoke(t, o, n - 1)
    /\ UNCHANGED <<dvars, ctx, lst, srch, call, med, cls, chat, fmt>>

\* The login of o's ensureConnected resolves: connect sets isConnected and
\* the operation issues its first invoke.
EnsureConnectedResolve(o) ==
    /\ ~tg.exited
    /\ tg.ops[o].pc = "connecting"
    /\ tg' = Invoke([tg EXCEPT !.isConnected = TRUE], o, tg.ops[o].left - 1)
    /\ UNCHANGED <<dvars, ctx, lst, srch, call, med, cls, chat, fmt>>

\* The login rejects: connect throws out of ensureConnected, which stands
\* before the operation's try.
EnsureConnectedReject(o) ==
    /\ ~tg.exited
    /\ tg.ops[o].pc = "connecting"
    /\ tg' = [tg EXCEPT !.ops[o].pc = "failed", !.ops[o].loginFailed = TRUE]
    /\ UNCHANGED <<dvars, ctx, lst, srch, call, med, cls, chat, fmt>>

\* The pending invoke of o resolves: the operation issues its next invoke
\* or returns.
InvokeResolve(o) ==
    /\ ~tg.exited
    /\ tg.ops[o].pc = "invoking"
    /\ tg' = IF tg.ops[o].left > 0
             THEN Invoke(tg, o, tg.ops[o].left - 1)
             ELSE [tg EXCEPT !.ops[o].pc = "done"]
    /\ UNCHANGED <<dvars, ctx, lst, srch, call, med, cls, chat, fmt>>

\* The pending invoke of o rejects: the operation throws.
InvokeReject(o) ==
    /\ ~tg.exited
    /\ tg.ops[o].pc = "invoking"
    /\ tg' = [tg EXCEPT !.ops[o].pc = "failed"]
    /\ UNCHANGED <<dvars, ctx, lst, srch, call, med, cls, chat, fmt>>

\* A script calls disconnect() after the operations it awaited.
ScriptDisconnect ==
    /\ ~tg.exited
    /\ tg.down = "idle"
    /\ \A o \in 1..MaxOps : ~InFlight(tg, o)
    /\ tg.isConnected
    /\ tg' = [tg EXCEPT !.down = "close"]
    /\ UNCHANGED <<dvars, ctx, lst, srch, call, med, cls, chat, fmt>>

\* client.close of the script's disconnect resolves or rejects.
ScriptCloseDone ==
    /\ tg.down = "close"
    /\ \/ tg' = [tg EXCEPT !.down = "idle", !.isConnected = FALSE]
       \/ tg' = [tg EXCEPT !.down = "idle"]
    /\ UNCHANGED <<dvars, ctx, lst, srch, call, med, cls, chat, fmt>>

\* SIGINT or SIGTERM: cleanup calls disconnect(), whatever is running;
\* not connected, it returns and the process exits.
Shutdown ==
    /\ ~tg.exited
    /\ tg.down = "idle"
    /\ tg' = IF tg.isConnected
             THEN [tg EXCEPT !.down = "shutdown"]
             ELSE [tg EXCEPT !.exited = TRUE]
    /\ UNCHANGED <<dvars, ctx, lst, srch, call, med, cls, chat, fmt>>

\* client.close of cleanup's disconnect resolves (isConnected is cleared)
\* or rejects (cleanup catches); the process exits.
ShutdownCloseDone ==
    /\ ~tg.exited
    /\ tg.down = "shutdown"
    /\ \/ tg' = [tg EXCEPT !.isConnected = FALSE, !.exited = TRUE]
       \/ tg' = [tg EXCEPT !.exited = TRUE]
    /\ UNCHANGED <<dvars, ctx, lst, srch, call, med, cls, chat, fmt>>

OpsNext ==
    \/ \E o \in 1..MaxOps : ClientOperation(o)
    \/ \E o \in 1..MaxOps : EnsureConnectedResolve(o)
    \/ \E o \in 1..MaxOps : EnsureConnectedReject(o)
    \/ \E o \in 1..MaxOps : InvokeResolve(o)
    \/ \E o \in 1..MaxOps : InvokeReject(o)
    \/ ScriptDisconnect
    \/ ScriptCloseDone
    \/ Shutdown
    \/ ShutdownCloseDone

OpsSpec == OpsInit /\ [][OpsNext]_vars

(***************************************************************************)
(* formatMessageInfo (client.ts:857-916): the translation of one raw       *)
(* remote message into a MessageInfo.                                      *)
(*                                                                         *)
(* The raw message's content is of one kind. A text content holds          *)
(* text.text; the media contents hold their media object and may hold      *)
(* caption.text; the remaining kinds (a video note, a location, a contact, *)
(* a poll, a service message such as a pinned message, or no content at    *)
(* all) hold none of the fields formatMessageInfo reads.                   *)
(*                                                                         *)
(*   pc       "raw" (message received), "formatted"                        *)
(*   message  the raw message                                              *)
(*   info     the MessageInfo, once formatted                              *)
(***************************************************************************)
OtherContents == {"video_note", "location", "contact", "poll", "pin_message", "none"}
RawContentKinds == {"text"} \cup MediaContents \cup OtherContents
Undefined == [given |-> FALSE, value |-> ""]
Defined(s) == [given |-> TRUE, value |-> s]

RawMessages ==
    {m \in [kind : RawContentKinds, text : {"", "hello"}, caption : {Undefined, Defined("look")},
            is_outgoing : BOOLEAN, edit_date : {0, 5}, reply_to_message_id : {0, 7},
            sender : {"none", "user", "chat"}, forward_info : BOOLEAN] :
        /\ m.kind # "text" => m.text = ""
        /\ m.kind \notin MediaContents => m.caption = Undefined}

FormatInit ==
    /\ fmt \in [pc : {"raw"}, message : RawMessages, info : {Undefined}]
    /\ DispatcherInit
    /\ ctx = CtxIdle
    /\ lst = ListIdle
    /\ srch = SearchIdle
    /\ call = CallIdle
    /\ med = MediaIdle
    /\ cls = ClassifyIdle
    /\ chat = ChatInfoIdle
    /\ tg = ClientIdle

\* The mediaType of the else-if chain, "none" when no branch is taken.
MediaTypeOf(kind) ==
    IF kind \notin MediaContents THEN "none"
    ELSE IF kind = "voice_note" THEN "voice"
    ELSE kind

\* The branches of the chain that copy content.caption?.text.
Captioned == {"photo", "video", "document", "audio", "animation"}

formatMessageInfo(message) ==
    [isOutgoing |-> message.is_outgoing,
     isEdited |-> message.edit_date # 0,
     editDate |-> message.edit_date,
     senderId |-> message.sender,
     text |-> IF message.kind = "text" /\ message.text # "" THEN Defined(message.text) ELSE Undefined,
     replyToMessageId |-> message.reply_to_message_id,
     mediaType |-> MediaTypeOf(message.kind),
     mediaCaption |-> IF message.kind \in Captioned THEN message.caption ELSE Undefined,
     mediaInfo |-> IF MediaTypeOf(message.kind) # "none"
                   THEN extractFileFromMessage(message.kind) ELSE "null",
     forwardedFrom |-> message.forward_info]

\* A client operation formats a message it has received.
FormatMessage ==
    /\ fmt.pc = "raw"
    /\ fmt' = [fmt EXCEPT !.pc = "formatted", !.info = formatMessageInfo(fmt.message)]
    /\ UNCHANGED <<dvars, ctx, lst, srch, call, med, cls, chat, tg>>

FormatNext == FormatMessage

FormatSpec == FormatInit /\ [][FormatNext]_vars

(***************************************************************************)
(* The dispatcher claims.                                                  *)
(***************************************************************************)

\* C1: every failure that reaches the caller of a tool invocation is a
\* classified error of one of the four kinds; no raw exception crosses the
\* dispatcher boundary, whatever the dispatcher state.
C1_EveryFailureClassified ==
    \A r \in 1..MaxReq :
        (req[r].pc = "done" /\ req[r].outcome # "ok") => req[r].outcome \in ErrorCodes

\* C2: a tool name outside the 18 recognised names fails with MethodNotFound
\* and the invocation calls no client operation, connect included.
C2_UnknownToolCallsNothing ==
    \A r \in 1..MaxReq :
        (req[r].pc # "idle" /\ req[r].route = "none") =>
            /\ ~req[r].connect
            /\ ~req[r].op
            /\ (req[r].pc = "done" => req[r].outcome = "MethodNotFound")

\* C5: over any interleaving of tool invocations, invocations during the
\* first connection attempt and after a failed one included, client.login
\* is called at most once.
C5_LoginAtMostOnce == loginCalls <= 1

\* An invocation was answered without a connect of its own while the one
\* login was pending or had failed.
C5_Witness ==
    /\ loginCalls = 1
    /\ ~isConnected
    /\ \E r \in 1..MaxReq : req[r].pc = "done" /\ ~req[r].connect

\* C6: when the process exits on a termination signal and a client instance
\* exists, client.close has been called, whatever state the client was in.
C6_ClosedBeforeExit ==
    (exited /\ telegramClient # "null") => closeCalls >= 1

\* C7: a failure of disconnect during shutdown is logged and not
\* propagated: the process exits, with status 0.
C7_DisconnectFailureLoggedExitZero ==
    /\ exited => exitStatus = 0
    /\ \A s \in 1..MaxSig :
        sig[s].pc = "failed" => (exited /\ exitStatus = 0 /\ cleanupErrors >= 1)

\* client.close has rejected during a cleanup.
C7_Witness == \E s \in 1..MaxSig : sig[s].pc = "failed"

(***************************************************************************)
(* The reply-chain claims.                                                 *)
(***************************************************************************)

\* C3: for every reply-pointer graph the returned reply chain has at most
\* 10 entries, and for the linear chain M1 <- ... <- M12 queried at M12 with
\* every fetch succeeding it has exactly 10.
C3_ChainAtMostTen ==
    ctx.pc = "done" =>
        /\ Len(ctx.replyChain) <= 10
        /\ (ctx.q = 12 /\ ctx.back = 0 /\ ctx.includeReplies /\ ctx.outcome = "ok"
            /\ ctx.failedAt = 0) => Len(ctx.replyChain) = 10

\* C4: when the fetch of the k-th ancestor fails, the request still
\* succeeds, the chain holds exactly the k-1 ancestors fetched before, in
\* order, and no ancestor is fetched after the failed one.
C4_PartialChainOnFetchFailure ==
    (ctx.pc = "done" /\ ctx.failedAt > 0) =>
        /\ ctx.outcome = "ok"
        /\ Len(ctx.replyChain) = ctx.failedAt - 1
        /\ \A i \in 1..Len(ctx.replyChain) : ctx.replyChain[i] = Ancestor(ctx, ctx.q, i)
        /\ Len(ctx.fetches) = ctx.failedAt
        /\ ctx.fetches[ctx.failedAt] = Ancestor(ctx, ctx.q, ctx.failedAt)

\* The fetch of the fourth ancestor failed after three were fetched.
C4_Witness ==
    /\ ctx.pc = "done"
    /\ ctx.failedAt = 4
    /\ Len(ctx.replyChain) = 3

\* C15: the reply chain returned by get_message_context is a prefix of the
\* target's true ancestor sequence: entry i is the message reached by
\* following i reply pointers from the target, nearest reply first, with no
\* reordering and no gaps.
C15_ChainIsAncestorPrefix ==
    ctx.pc \in {"thread", "done"} =>
        \A i \in 1..Len(ctx.replyChain) :
            /\ ctx.replyChain[i] = Ancestor(ctx, ctx.q, i)
            /\ ctx.replyChain[i] # 0

\* A chain of five ancestors was returned, every fetch having succeeded.
C15_Witness ==
    /\ ctx.pc = "done"
    /\ ctx.outcome = "ok"
    /\ ctx.failedAt = 0
    /\ ctx.q = 6
    /\ ctx.back = 0
    /\ ctx.replyChain = <<5, 4, 3, 2, 1>>

\* C14: in get_message_context the thread is fetched only when includeThread
\* is true and the target message has a thread id, in a single call; if
\* that call fails the request still succeeds with an empty thread list.
C14_ThreadFetchedOnceFailureEmpty ==
    /\ ctx.pc # "off" =>
           /\ ctx.threadCalls <= 1
           /\ ctx.threadCalls = 1 => (ctx.includeThread /\ ctx.threadId # 0)
    /\ (ctx.pc = "done" /\ ctx.outcome = "ok" /\ ctx.includeThread /\ ctx.threadId # 0) =>
           ctx.threadCalls = 1
    /\ (ctx.pc = "done" /\ ctx.threadFailed) =>
           (ctx.outcome = "ok" /\ ctx.thread = <<>>)

\* The thread fetch failed after a reply chain of two was built.
C14_Witness ==
    /\ ctx.pc = "done"
    /\ ctx.threadFailed
    /\ ctx.threadCalls = 1
    /\ Len(ctx.replyChain) = 2

(***************************************************************************)
(* The chat-list claims.                                                   *)
(***************************************************************************)

\* C9: outside the three documented recoveries a failed remote call makes
\* the tool return a classified error, never a text: list_chats and
\* search_chats fail when the info of one of the listed chats cannot be
\* fetched.
C9_FailedChatInfoIsAnError ==
    (lst.pc = "done" /\ lst.failed # {}) => lst.outcome \in ErrorCodes

\* Two letters that differ at most in case.
SameLetter(x, y) == x = y \/ {x, y} = {"a", "A"} \/ {x, y} = {"b", "B"}

\* s contains q as a substring, compared case-insensitively.
ContainsIgnoringCase(s, q) ==
    \E off \in 0..(Len(s) - Len(q)) : \A j \in 1..Len(q) : SameLetter(s[off + j], q[j])

\* C16: search_chats fetches the chat list with the fixed cap 200 and
\* returns, in list order, the first `limit` (default 20) chats whose title,
\* or username when present, contains the query as a substring compared
\* case-insensitively; no non-matching chat is returned and no earlier
\* matching chat is skipped.
C16_SearchChatsFirstMatches ==
    (lst.pc = "done" /\ lst.tool = "search_chats" /\ lst.outcome = "ok") =>
        LET n == IF lst.limitGiven THEN lst.limit ELSE 20
            hit(k) == \/ ContainsIgnoringCase(ChatTitle(k), lst.query)
                      \/ /\ ChatUsername(k) # <<>>
                         /\ ContainsIgnoringCase(ChatUsername(k), lst.query)
            shown == lst.shown IN
        /\ lst.fetchLimit = 200
        /\ lst.sliceLimit = n
        /\ Len(shown) <= n
        /\ \A j \in 1..Len(shown) : hit(shown[j]) /\ InSeq(shown[j], lst.chatInfos)
        /\ \A j \in 1..(Len(shown) - 1) : shown[j] < shown[j + 1]
        /\ \A j \in 1..Len(lst.chatInfos) :
               LET k == lst.chatInfos[j] IN
               (hit(k) /\ ~InSeq(k, shown)) =>
                   (Len(shown) = n /\ \A i \in 1..n : shown[i] < k)

\* The query "AB" found the chat titled "Ab" and the chat with the username
\* "aB", and not the third chat.
C16_Witness ==
    /\ lst.pc = "done"
    /\ lst.tool = "search_chats"
    /\ lst.outcome = "ok"
    /\ lst.query = <<"A", "B">>
    /\ lst.chatInfos = <<1, 2, 3>>
    /\ lst.shown = <<1, 2>>

(***************************************************************************)
(* The search claims.                                                      *)
(***************************************************************************)

\* C8 as stated: when the search of a chat fails, no error is raised and
\* the result holds the matches of every other chat among the first 10.
C8_EveryOtherChatsMatches ==
    (srch.pc = "done" /\ srch.failed # {}) =>
        /\ srch.outcome = "ok"
        /\ \A c \in (1..LoopChats(srch)) \ srch.failed :
             \A k \in 1..Hits(srch, c) : InSeq(<<c, k>>, srch.messages)

\* C8 as amended: when the search of a chat fails, no error is raised, the
\* chat is skipped, and the result is the first `limit` messages of the
\* matches returned for the other chats among the first 10, in chat order
\* (each chat searched under the limit min(limit, 10)).
C8_OtherChatsUpToLimit ==
    (srch.pc = "done" /\ srch.failed # {}) =>
        /\ srch.outcome = "ok"
        /\ srch.messages = Take(OtherChatsMatches(srch, 1), srch.limit)
        /\ \A c \in srch.failed : \A k \in 1..Len(srch.messages) : srch.messages[k][1] # c

\* The search of a chat failed and matches of a later chat are returned.
C8_Witness ==
    /\ srch.pc = "done"
    /\ \E c \in srch.failed :
         \E k \in 1..Len(srch.messages) : srch.messages[k][1] > c

\* C25: unscoped search_messages fetches the 20 most recent chats once,
\* then searches chats one at a time in list order: at most 10 per-chat
\* searches are issued, each with per-chat limit min(limit, 10); no
\* per-chat search is issued after the accumulated number of messages has
\* reached limit (a search is issued only from pc = "loop"); and the
\* returned list has at most limit messages.
C25_UnscopedSearchSequence ==
    (srch.pc # "off" /\ srch.chatId = 0) =>
        /\ srch.getChatsCalls = IF srch.pc = "chats" THEN <<>> ELSE <<20>>
        /\ Len(srch.asked) <= 10
        /\ \A k \in 1..Len(srch.asked) :
               srch.asked[k] = <<k, IF srch.limit < 10 THEN srch.limit ELSE 10>>
        /\ srch.pc = "loop" => Len(srch.allMessages) < srch.limit
        /\ srch.pc = "done" => Len(srch.messages) <= srch.limit

\* More than 10 chats were listed, 10 were searched and the search that
\* reached the limit was the last one issued.
C25_Witness ==
    /\ srch.pc = "done"
    /\ srch.chatId = 0
    /\ srch.outcome = "ok"
    /\ srch.n > 10
    /\ Len(srch.asked) = 10
    /\ Len(srch.allMessages) > srch.limit
    /\ Len(srch.messages) = srch.limit

\* The counts of the searches srch.asked[k..] that succeeded: for each the
\* count the remote reports, or the number of messages it returned when it
\* reports none.
RECURSIVE SumOfCounts(_, _)
SumOfCounts(s, k) ==
    IF k > Len(s.asked) THEN 0
    ELSE LET c == s.asked[k][1]
             returned == IF Hits(s, c) < s.asked[k][2] THEN Hits(s, c) ELSE s.asked[k][2] IN
         (IF c \in s.failed THEN 0
          ELSE IF s.reports /\ Hits(s, c) > 0 THEN Hits(s, c)
          ELSE returned)
         + SumOfCounts(s, k + 1)

\* C26: the totalCount returned by search_messages is the sum, over the
\* chats actually searched successfully, of the count the remote reports
\* for that chat, or of the number of messages observed for that chat when
\* the remote reports no count; for scoped search this is the single
\* chat's reported count or messages.length.
C26_TotalCountIsSumOfCounts ==
    (srch.pc = "done" /\ srch.outcome = "ok") =>
        /\ srch.totalCount = SumOfCounts(srch, 1)
        /\ srch.chatId # 0 =>
               /\ Len(srch.asked) = 1
               /\ srch.totalCount = IF srch.reports /\ Hits(srch, srch.chatId) > 0
                                     THEN Hits(srch, srch.chatId)
                                     ELSE Len(srch.messages)

\* An unscoped search in which a chat failed, the remote reported counts
\* above the per-chat limit, and the total exceeds the messages returned.
C26_Witness ==
    /\ srch.pc = "done"
    /\ srch.outcome = "ok"
    /\ srch.chatId = 0
    /\ srch.reports
    /\ srch.failed # {}
    /\ Len(srch.asked) >= 3
    /\ srch.totalCount > Len(srch.allMessages)

(***************************************************************************)
(* The handler claims.                                                     *)
(***************************************************************************)

\* The call gives an empty string as a chat id of its tool.
EmptyChatIdGiven ==
    \/ call.tool \in ChatIdTools \cup {"search_messages"} /\ call.args.chatId = ""
    \/ call.tool = "forward_message"
       /\ (call.args.fromChatId = "" \/ call.args.toChatId = "")

\* C10: every tool that takes a chat id (chatId, fromChatId, toChatId;
\* search_messages with a chatId included) rejects an empty-string chat id
\* with InvalidParams and makes no client call.
C10_EmptyChatIdRejected ==
    (call.pc = "done" /\ EmptyChatIdGiven) =>
        (call.outcome = "InvalidParams" /\ call.calls = <<>>)

\* The client calls of the handler call that went to `method`.
CallsTo(method) == {k \in 1..Len(call.calls) : call.calls[k].method = method}

\* C11: for every tool handler, when argument validation fails the handler
\* fails with InvalidParams and has invoked no client operation; mark_as_read
\* with an empty messageIds array is rejected without invoking the client.
C11_InvalidArgsNoClientCall ==
    call.pc = "done" =>
        /\ ~SchemaOk(call.tool, call.args) =>
               (call.outcome = "InvalidParams" /\ call.calls = <<>>)
        /\ (call.tool = "mark_as_read" /\ call.args.messageIds.given
            /\ call.args.messageIds.value = <<>>) =>
               (call.outcome = "InvalidParams" /\ call.calls = <<>>)

\* mark_as_read was called with a chat id and an empty messageIds array, and
\* was rejected.
C11_Witness ==
    /\ call.pc = "done"
    /\ call.tool = "mark_as_read"
    /\ call.args.chatId = "123"
    /\ call.args.rest
    /\ call.args.messageIds.given
    /\ call.args.messageIds.value = <<>>
    /\ call.outcome = "InvalidParams"

\* The client method that takes the limit of a tool.
LimitMethod(tool) ==
    CASE tool = "list_chats" -> "getChats"
      [] tool = "get_messages" -> "getMessages"
      [] tool = "search_messages" -> "searchMessages"

\* C12: for list_chats (bound 1..200, default 50) and for get_messages and
\* search_messages (bound 1..100, default 20): a limit outside the bound is
\* rejected by validation, a limit inside the bound is passed unchanged to
\* the client call, and an omitted limit makes the call use the default.
C12_LimitBoundsAndDefault ==
    (call.pc = "done"
     /\ call.tool \in {"list_chats", "get_messages", "search_messages"}) =>
        LET l == call.args.limit
            hi == IF call.tool = "list_chats" THEN 200 ELSE 100
            default == IF call.tool = "list_chats" THEN 50 ELSE 20
            fetches == CallsTo(LimitMethod(call.tool)) IN
        /\ (l.given /\ (l.value < 1 \/ l.value > hi)) =>
               (call.outcome = "InvalidParams" /\ call.calls = <<>>)
        /\ \A k \in fetches :
               call.calls[k].limit = IF l.given THEN l.value ELSE default
        /\ call.outcome = "ok" => fetches # {}

\* list_chats was called with the limit 200 and asked the client for 200
\* chats.
C12_Witness ==
    /\ call.pc = "done"
    /\ call.tool = "list_chats"
    /\ call.args.limit.given
    /\ call.args.limit.value = 200
    /\ call.outcome = "ok"
    /\ call.calls[1].limit = 200

\* C13: get_messages with chatId "me" or "self" makes exactly one getMe
\* call, before the message fetch, and the message fetch uses the fetched
\* numeric id rendered as a string as its chat id; for every other chatId no
\* getMe call is made and the chatId is passed unchanged.
C13_SelfAliasResolvedOnce ==
    (call.pc = "done" /\ call.tool = "get_messages"
     /\ SchemaOk(call.tool, call.args)) =>
        IF call.args.chatId \in {"me", "self"}
        THEN /\ CallsTo("getMe") = {1}
             /\ CallsTo("getMessages") \subseteq {2}
             /\ \A k \in CallsTo("getMessages") : call.calls[k].chatId = "12345"
             /\ call.outcome = "ok" => CallsTo("getMessages") = {2}
        ELSE /\ CallsTo("getMe") = {}
             /\ CallsTo("getMessages") = {1}
             /\ call.calls[1].chatId = call.args.chatId

\* get_messages was called with "self" and fetched the messages of the
\* caller's own chat.
C13_Witness ==
    /\ call.pc = "done"
    /\ call.tool = "get_messages"
    /\ call.args.chatId = "self"
    /\ call.outcome = "ok"
    /\ Len(call.calls) = 2

(***************************************************************************)
(* The media lookup claims.                                                *)
(***************************************************************************)

C18_ClassifierIdempotent ==
    cls.pc \in {"returned", "rejected"} =>
        /\ cls.given.type = "McpError" => cls.result = cls.given
        /\ cls.passes >= 2 => cls.result = cls.given

\* The classifier was applied to what it had made of an Error and returned
\* it as it was.
C18_Witness ==
    /\ cls.pc = "returned"
    /\ cls.passes = 2
    /\ cls.error.type = "Error"
    /\ cls.result = cls.given

\* The `path: message` pair of an issue, the path joined by dots.
IssuePair(issue) ==
    (IF Len(issue.path) = 0 THEN ""
     ELSE IF Len(issue.path) = 1 THEN issue.path[1]
     ELSE issue.path[1] \o "." \o issue.path[2])
    \o ": " \o issue.message

\* The pairs of the first n issues, comma-joined in order.
RECURSIVE PairsUpTo(_, _)
PairsUpTo(errors, n) ==
    IF n = 1 THEN IssuePair(errors[1])
    ELSE PairsUpTo(errors, n - 1) \o ", " \o IssuePair(errors[n])

\* C19: a schema validation failure with n violated fields is classified
\* as InvalidParams with a message that lists all n `path: message` pairs,
\* comma-joined, in the order reported.
C19_AllViolationsListed ==
    (cls.pc \in {"returned", "rejected"} /\ cls.given.type = "ZodError") =>
        /\ cls.result.type = "McpError"
        /\ cls.result.code = "InvalidParams"
        /\ cls.result.msg =
               "Validation error: " \o PairsUpTo(cls.given.errors, Len(cls.given.errors))

\* A validation failure on chatId and on an element of messageIds was
\* classified with both pairs in its message.
C19_Witness ==
    /\ cls.pc = "rejected"
    /\ cls.given.type = "ZodError"
    /\ Len(cls.given.errors) = 2
    /\ cls.result.msg =
           "Validation error: chatId: Required, messageIds.0: Expected number"

\* C20: for every failure value that is neither an already-classified error
\* nor a validation failure the classifier returns InvalidRequest with the
\* fixed message for an exception whose message holds the
\* phone-number-invalid, chat-id-invalid or user-id-invalid code,
\* InternalError 'Telegram connection not initialized' for the
\* connection-not-initialized code, otherwise InternalError
\* 'Operation failed: <message>' for an exception and InternalError
\* 'Unknown error occurred' for a value that is no exception; the result is
\* always an error of the taxonomy.
C20_RemainingFailuresClassified ==
    (cls.pc \in {"returned", "rejected"} /\ cls.given.type \in {"Error", "value"}) =>
        LET m == cls.given.msg
            r == cls.result
            fixed == {<<"PHONE_NUMBER_INVALID", "Invalid phone number format">>,
                      <<"CHAT_ID_INVALID", "Invalid chat ID">>,
                      <<"USER_ID_INVALID", "Invalid user ID">>} IN
        /\ r.type = "McpError"
        /\ r.code \in ErrorCodes
        /\ IF cls.given.type = "value"
           THEN r.code = "InternalError" /\ r.msg = "Unknown error occurred"
           ELSE IF \E f \in fixed : includes(m, f[1])
           THEN /\ r.code = "InvalidRequest"
                /\ \E f \in fixed : includes(m, f[1]) /\ r.msg = f[2]
           ELSE IF includes(m, "CONNECTION_NOT_INITED")
           THEN r.code = "InternalError" /\ r.msg = "Telegram connection not initialized"
           ELSE r.code = "InternalError" /\ r.msg = "Operation failed: " \o m

\* An Error whose message holds the chat-id-invalid code inside a longer
\* text was classified as an invalid chat id.
C20_Witness ==
    /\ cls.pc = "returned"
    /\ cls.passes = 1
    /\ cls.given.type = "Error"
    /\ cls.given.msg = "Error 400: CHAT_ID_INVALID"
    /\ cls.result = [type |-> "McpError", code |-> "InvalidRequest", msg |-> "Invalid chat ID"]

(***************************************************************************)
(* The chat info claims.                                                   *)
(***************************************************************************)

C23_RoutedHandlerExists ==
    \A r \in 1..MaxReq :
        (req[r].pc = "done" /\ req[r].route # "none" /\ req[r].stage = "none")
            => req[r].outcome # "raw"

\* C24: for every reply-pointer graph, graphs with cycles and self-replies
\* included, the reply-chain walk ends after a bounded number of fetches
\* (at most MaxDepth + 1) provided each fetch returns or fails, and
\* get_message_context returns.
C24_WalkTerminates ==
    /\ [](Len(ctx.fetches) <= MaxDepth + 1)
    /\ <>(ctx.pc = "done")

\* A walk that ran round a cycle of two messages until the guard stopped
\* it, and the context was returned.
C24_Witness ==
    /\ ctx.pc = "done"
    /\ ctx.outcome = "ok"
    /\ ctx.q = 2
    /\ ctx.back = 2
    /\ ctx.failedAt = 0
    /\ Len(ctx.fetches) = MaxDepth + 1
    /\ Len(ctx.replyChain) = MaxDepth + 1

\* C27: schema defaults apply only when a field is omitted:
\* get_message_context with includeReplies explicitly false issues no
\* ancestor fetch and returns an empty reply chain even when the target
\* has a reply target, while with includeReplies omitted it walks the
\* chain; with includeThread omitted no thread fetch is issued.
C27_DefaultsOnlyWhenOmitted ==
    ctx.pc # "off" =>
        /\ (ctx.argReplies.given /\ ~ctx.argReplies.value) =>
               /\ ctx.fetches = <<>>
               /\ ctx.replyChain = <<>>
               /\ ctx.pc # "walk"
        /\ (/\ ~ctx.argReplies.given
            /\ replyTo(ctx, ctx.q) # 0
            /\ ctx.pc = "thread" \/ (ctx.pc = "done" /\ ctx.outcome = "ok")) =>
               /\ ctx.fetches # <<>>
               /\ ctx.fetches[1] = replyTo(ctx, ctx.q)
        /\ ~ctx.argThread.given => (ctx.threadCalls = 0 /\ ctx.pc # "thread")

\* The context of a reply in a thread was returned for a call that gave
\* includeReplies false and no includeThread.
C27_Witness ==
    /\ ctx.pc = "done"
    /\ ctx.outcome = "ok"
    /\ ctx.argReplies.given
    /\ ~ctx.argReplies.value
    /\ ~ctx.argThread.given
    /\ replyTo(ctx, ctx.q) # 0
    /\ ctx.threadId # 0

\* C30: if fetching the target message itself fails in
\* get_message_context, the whole request fails with a classified error:
\* no context is returned, and neither the reply-chain walk nor the thread
\* fetch is started.
C30_MainFetchFailureFailsAll ==
    (ctx.pc # "off" /\ ctx.mainFailed) =>
        /\ ctx.pc = "done"
        /\ ctx.outcome \in ErrorCodes
        /\ ctx.fetches = <<>>
        /\ ctx.replyChain = <<>>
        /\ ctx.threadCalls = 0
        /\ ctx.thread = <<>>

\* The target's fetch failed for a call that asked for replies and thread
\* on a message that has both.
C30_Witness ==
    /\ ctx.pc = "done"
    /\ ctx.mainFailed
    /\ ctx.outcome \in ErrorCodes
    /\ ctx.includeReplies
    /\ ctx.includeThread
    /\ replyTo(ctx, ctx.q) # 0
    /\ ctx.threadId # 0

\* C29: no TelegramClient operation issues a remote request while the
\* client is not connected: each operation first establishes the
\* connection if needed, and if that establishment fails the operation
\* issues no remote request and fails.
C29_NoRequestWhileNotConnected ==
    tg.pc = "ops" =>
        /\ FALSE \notin tg.issuedWhile
        /\ \A o \in 1..MaxOps :
               /\ tg.ops[o].pc = "connecting" => tg.ops[o].invokes = 0
               /\ tg.ops[o].loginFailed =>
                      (tg.ops[o].invokes = 0 /\ tg.ops[o].pc = "failed")

\* After a script's disconnect one operation established the connection
\* again and issued two requests, and the establishment of another one
\* failed.
C29_Witness ==
    /\ tg.pc = "ops"
    /\ tg.starts = MaxStarts
    /\ tg.isConnected
    /\ tg.ops[1].pc = "done" /\ tg.ops[1].invokes = 2
    /\ tg.ops[2].loginFailed

(***************************************************************************)
(* The message translation claims.                                         *)
(***************************************************************************)

\* C28: every Message produced by translating a raw remote message carries
\* text or a media descriptor or both, for every content variant the
\* remote service can return.
C28_TextOrMedia ==
    fmt.pc = "formatted" =>
        \/ fmt.info.text.given
        \/ fmt.info.mediaType # "none"
        \/ fmt.info.mediaInfo # "null"

(***************************************************************************)
(* The connection claims.                                                  *)
(***************************************************************************)

\* The calls of the log that reached the underlying client and succeeded.
RECURSIVE SuccessfulRemotes(_)
SuccessfulRemotes(log) ==
    IF log = <<>> THEN <<>>
    ELSE (IF log[1].remote # "none" /\ log[1].ok THEN <<log[1].remote>> ELSE <<>>)
         \o SuccessfulRemotes(Tail(log))

\* C22: over any sequence of connect() and disconnect() calls, each awaited
\* before the next: connect() performs a login only when the client is not
\* connected, a failed login leaves the client not connected and fails with
\* 'Telegram connection failed: <message>', and disconnect() closes the
\* underlying client only when it is connected; hence successful logins
\* and closes strictly alternate, starting with a login.
C22_LoginsAndClosesAlternate ==
    tg.pc # "off" =>
        /\ \A i \in 1..Len(tg.log) :
               LET c == tg.log[i] IN
               /\ c.call = "connect" => (c.remote = "login" <=> ~c.before)
               /\ c.call = "disconnect" => (c.remote = "close" <=> c.before)
               /\ (c.remote = "login" /\ ~c.ok) =>
                      /\ ~c.after
                      /\ Len(c.error) >= 28
                      /\ SubSeq(c.error, 1, 28) = "Telegram connection failed: "
        /\ LET s == SuccessfulRemotes(tg.log) IN
           \A i \in 1..Len(s) : s[i] = IF i % 2 = 1 THEN "login" ELSE "close"

\* A login failed, the next one succeeded, a second connect did nothing
\* and a disconnect closed the client.
C22_Witness ==
    /\ tg.pc = "idle"
    /\ Len(tg.log) = 4
    /\ tg.log[1].remote = "login" /\ ~tg.log[1].ok
    /\ tg.log[2].remote = "login" /\ tg.log[2].ok
    /\ tg.log[3].call = "connect" /\ tg.log[3].remote = "none"
    /\ tg.log[4].remote = "close" /\ tg.log[4].ok

====
